---- MODULE Spec2Model ----
(***************************************************************************)
(* A model of the DotId annotation core of semantica: the DotId codec      *)
(* (dotid/primitives.ts), the annotation parser parseDotIds with its four  *)
(* surface patterns and the incomplete mode (dotid/parser.ts), the         *)
(* declaration/reference resolver, the validator (dotid/validator.ts),     *)
(* the text builders, the tokenizer and parse (parser/index.ts) with the   *)
(* glyph and compound tables, DotIdCounter (dotid/counter.ts), the noun    *)
(* and pronoun tracker and getSuggestions (suggestions/), and from the     *)
(* Obsidian plugin the editor decorations and the refresh timer of         *)
(* NoteObjectsView.                                                        *)
(*                                                                         *)
(* A text is a sequence of characters; a character is a string naming one  *)
(* UTF-16 code unit (all characters of the annotation syntax are in the    *)
(* BMP, so offsets count characters).  Offsets are 0-based as in the       *)
(* source: CharAt(text, i) is text[i].                                     *)
(***************************************************************************)
EXTENDS Integers, Sequences, FiniteSets, TLC

VARIABLES
    pc,                 \* which operation runs next / "done"
    text,               \* the document (or the string built by a builder)
    includeIncomplete,  \* second argument of the last parseDotIds call
    matches,            \* DotIdMatch[]
    declarations,       \* DotDeclaration[]
    references,         \* DotReference[]
    validation,         \* ValidationResult
    argTerm,            \* builder argument: term
    argGlyph,           \* builder argument: glyph symbol
    argValue,           \* builder argument: value of the DotId
    tokens,             \* Token[] returned by tokenize / parse
    errors,             \* ParseError[] of the result of parse
    scanIndex,          \* the index i of the scan loop of tokenize
    counter,            \* DotIdCounter: usedIds and declarations
    snap,               \* the last value returned by snapshot()
    taken,              \* the counter as it was when snap was taken
    ops,                \* number of counter operations performed
    added,              \* ranges given to RangeSetBuilder.add, in call order
    view,               \* NoteObjectsView and the timers it has pending
    clock,              \* the time, in milliseconds
    lastEvent,          \* the time of the last workspace event the view got
    argCursor,          \* second argument of getSuggestions: cursorPosition
    argMatched,         \* ids of the rules that match the text around the cursor
    trackedNouns,       \* TrackedNoun[] given to trackPronouns
    trackedPronouns,    \* TrackedPronoun[] returned by trackPronouns
    suggestionResult    \* SuggestionResult returned by getSuggestions

tokenVars == <<tokens, errors, scanIndex>>

counterVars == <<counter, snap, taken, ops>>

editorVars == <<added>>

viewVars == <<view, clock, lastEvent>>

suggestVars ==
    <<argCursor, argMatched, trackedNouns, trackedPronouns, suggestionResult>>

hostVars == <<editorVars, viewVars, suggestVars>>

vars == <<pc, text, includeIncomplete, matches, declarations, references,
          validation, argTerm, argGlyph, argValue, tokenVars, counterVars,
          hostVars>>

-----------------------------------------------------------------------------
(* Characters *)

DQ     == "\""
LBRACE == "{"
RBRACE == "}"
NL     == "\n"
SP     == " "
HYPHEN == "-"

\* DOT_PRIMITIVES
UNIT == "U+2022"
FIVE == "U+25CB"
TEN  == "U+29BF"

\* The registered glyphs, by code point (the keys of GLYPHS)
GLYPH_SYMBOLS ==
    {"U+2191", "U+2193", "U+25B2", "U+25BC", "U+25C7", "U+00BF", "U+2297",
     "U+21C4", "U+2192", "U+21BB", "U+2302", "U+25A0", "U+00A7", "U+2014",
     "U+26A0", "U+05EA", "U+2605", "U+2713", "U+2190", "U+2248", "U+29BF",
     "U+2301"}

SQUARE == "U+25A0"

STAR == "U+2605"

EXECUTION == "U+2301"

\* The keys of HEBREW_GLYPHS, by code point
HEBREW_GLYPHS ==
    {"U+05D0", "U+05D1", "U+05D2", "U+05D5", "U+05D4", "U+05D6", "U+05D7",
     "U+05D9", "U+05DC", "U+05DE"}

ALEF == "U+05D0"

\* \w under the u flag without i: [A-Za-z0-9_]; the letters the model writes
WordClass == {"a", "b"}

\* The class [•○⦿] written in every pattern of parseDotIds
DotClass == {UNIT, FIVE, TEN}

\* The lookbehind class written without the last glyph of the registry
ReferenceLookbehindShort ==
    {DQ} \cup WordClass \cup
    {"U+25A0", "U+2302", "U+2192", "U+2190", "U+2191", "U+2193", "U+25B2",
     "U+25BC", "U+25C7", "U+00BF", "U+2297", "U+21C4", "U+21BB",
     "U+00A7", "U+2014", "U+26A0", "U+05EA", "U+05EA", "U+2605", "U+2713",
     "U+2248", "U+29BF"}

\* The class of the negative lookbehind of the standalone-reference pattern
ReferenceLookbehind ==
    {DQ} \cup WordClass \cup
    {"U+25A0", "U+2302", "U+2192", "U+2190", "U+2191", "U+2193", "U+25B2",
     "U+25BC", "U+25C7", "U+00BF", "U+2297", "U+21C4", "U+21BB", "U+2301",
     "U+00A7", "U+2014", "U+26A0", "U+05EA", "U+05EA", "U+2605", "U+2713",
     "U+2248", "U+29BF"}

\* The class of the negative lookbehind of the single-word term pattern
TermLookbehind == {DQ} \cup WordClass

\* Every character a text of the model can hold
Alphabet ==
    {DQ, LBRACE, RBRACE, NL, SP, HYPHEN} \cup WordClass \cup DotClass
        \cup GLYPH_SYMBOLS \cup HEBREW_GLYPHS

\* [^"]
NotQuoteClass == Alphabet \ {DQ}

-----------------------------------------------------------------------------
(* DotId codec: dotid/primitives.ts *)

DOT_CHARS == {UNIT, FIVE, TEN}

\* The table with TEN valued 9
DOT_VALUES_TenAsNine(primitive) ==
    CASE primitive = UNIT -> 1
      [] primitive = FIVE -> 5
      [] primitive = TEN  -> 9

\* DOT_VALUES[primitive]
DOT_VALUES(primitive) ==
    CASE primitive = UNIT -> 1
      [] primitive = FIVE -> 5
      [] primitive = TEN  -> 10

\* DOT_IDS with the signature of 8 written as that of 9
DOT_IDS_SharedSignature == <<
    [value |-> 1,  signature |-> <<UNIT>>,             primitives |-> <<UNIT>>,             isCluster |-> FALSE],
    [value |-> 2,  signature |-> <<UNIT, UNIT>>,       primitives |-> <<UNIT, UNIT>>,       isCluster |-> FALSE],
    [value |-> 3,  signature |-> <<UNIT, UNIT, UNIT>>, primitives |-> <<UNIT, UNIT, UNIT>>, isCluster |-> TRUE],
    [value |-> 4,  signature |-> <<UNIT, FIVE>>,       primitives |-> <<UNIT, FIVE>>,       isCluster |-> FALSE],
    [value |-> 5,  signature |-> <<FIVE>>,             primitives |-> <<FIVE>>,             isCluster |-> FALSE],
    [value |-> 6,  signature |-> <<FIVE, UNIT>>,       primitives |-> <<FIVE, UNIT>>,       isCluster |-> FALSE],
    [value |-> 7,  signature |-> <<FIVE, UNIT, UNIT>>, primitives |-> <<FIVE, UNIT, UNIT>>, isCluster |-> TRUE],
    [value |-> 8,  signature |-> <<UNIT, TEN>>,        primitives |-> <<UNIT, UNIT, TEN>>,  isCluster |-> TRUE],
    [value |-> 9,  signature |-> <<UNIT, TEN>>,        primitives |-> <<UNIT, TEN>>,        isCluster |-> FALSE],
    [value |-> 10, signature |-> <<TEN>>,              primitives |-> <<TEN>>,              isCluster |-> FALSE] >>

DOT_IDS == <<
    [value |-> 1,  signature |-> <<UNIT>>,             primitives |-> <<UNIT>>,             isCluster |-> FALSE],
    [value |-> 2,  signature |-> <<UNIT, UNIT>>,       primitives |-> <<UNIT, UNIT>>,       isCluster |-> FALSE],
    [value |-> 3,  signature |-> <<UNIT, UNIT, UNIT>>, primitives |-> <<UNIT, UNIT, UNIT>>, isCluster |-> TRUE],
    [value |-> 4,  signature |-> <<UNIT, FIVE>>,       primitives |-> <<UNIT, FIVE>>,       isCluster |-> FALSE],
    [value |-> 5,  signature |-> <<FIVE>>,             primitives |-> <<FIVE>>,             isCluster |-> FALSE],
    [value |-> 6,  signature |-> <<FIVE, UNIT>>,       primitives |-> <<FIVE, UNIT>>,       isCluster |-> FALSE],
    [value |-> 7,  signature |-> <<FIVE, UNIT, UNIT>>, primitives |-> <<FIVE, UNIT, UNIT>>, isCluster |-> TRUE],
    [value |-> 8,  signature |-> <<UNIT, UNIT, TEN>>,  primitives |-> <<UNIT, UNIT, TEN>>,  isCluster |-> TRUE],
    [value |-> 9,  signature |-> <<UNIT, TEN>>,        primitives |-> <<UNIT, TEN>>,        isCluster |-> FALSE],
    [value |-> 10, signature |-> <<TEN>>,              primitives |-> <<TEN>>,              isCluster |-> FALSE] >>

\* The result `undefined` of a Map lookup that finds nothing
UndefinedDotId ==
    [value |-> 0, signature |-> <<>>, primitives |-> <<>>, isCluster |-> FALSE]

\* A lookup that accepts a dot string that starts with a signature
SIGNATURE_TO_DOTID_Prefix(signature) ==
    LET ks == {k \in 1..Len(DOT_IDS) :
                 /\ Len(DOT_IDS[k].signature) <= Len(signature)
                 /\ SubSeq(signature, 1, Len(DOT_IDS[k].signature)) = DOT_IDS[k].signature}
    IN  IF ks = {} THEN UndefinedDotId
        ELSE DOT_IDS[CHOOSE k \in ks : \A j \in ks : j <= k]

\* new Map(DOT_IDS.map((d) => [d.signature, d])).get(signature): a later
\* entry with the same key replaces the earlier one
SIGNATURE_TO_DOTID(signature) ==
    LET ks == {k \in 1..Len(DOT_IDS) : DOT_IDS[k].signature = signature}
    IN  IF ks = {} THEN UndefinedDotId
        ELSE DOT_IDS[CHOOSE k \in ks : \A j \in ks : j <= k]

\* new Map(DOT_IDS.map((d) => [d.value, d])).get(value)
VALUE_TO_DOTID(value) ==
    LET ks == {k \in 1..Len(DOT_IDS) : DOT_IDS[k].value = value}
    IN  IF ks = {} THEN UndefinedDotId
        ELSE DOT_IDS[CHOOSE k \in ks : \A j \in ks : j <= k]

getDotIdByValue(value) == VALUE_TO_DOTID(value)

getDotIdBySignature(signature) == SIGNATURE_TO_DOTID(signature)

isValidSignature(signature) == SIGNATURE_TO_DOTID(signature) # UndefinedDotId

-----------------------------------------------------------------------------
(* Evaluation helpers *)

\* F applied to the value of e; e is evaluated once (call by value)
Let(F(_), e) == CHOOSE r \in {F(v) : v \in {e}} : TRUE

RECURSIVE Fold(_, _, _, _)
Fold(Step(_, _), acc, s, k) ==
    IF k > Len(s) THEN acc
    ELSE Let(LAMBDA a : Fold(Step, a, s, k + 1), Step(acc, s[k]))

\* for (const x of s) acc = Step(acc, x), starting from init
ForEach(Step(_, _), init, s) ==
    Let(LAMBDA v : Let(LAMBDA a : Fold(Step, a, v, 1), init), s)

-----------------------------------------------------------------------------
(* Strings and regular expressions *)

\* text[i]
CharAt(t, i) == t[i + 1]

\* text.slice(from, to)
Slice(t, from, to) == SubSeq(t, from + 1, to)

\* The offset after the longest run of characters of class S that starts at
\* offset i: the greedy quantifier + over a character class
RECURSIVE RunEnd(_, _, _)
RunEnd(t, S, i) ==
    IF i < Len(t) /\ CharAt(t, i) \in S THEN RunEnd(t, S, i + 1) ELSE i

\* No match of a pattern at an offset
NoMatch == [index |-> -1, end |-> -1, anchor |-> <<>>, signature |-> <<>>]

\* \{([•○⦿]+)\}   or, in the incomplete patterns,   \{([•○⦿]+)$   with flag m,
\* tried at offset i: the offset where the match ends, or -1.  The greedy run
\* of dots is the only candidate: a shorter run is followed by a dot.
BraceGroupEnd(t, i, incomplete) ==
    IF i < Len(t) /\ CharAt(t, i) = LBRACE
    THEN Let(LAMBDA j :
                 IF j = i + 1 THEN -1
                 ELSE IF incomplete
                      THEN (IF j = Len(t) \/ CharAt(t, j) = NL THEN j ELSE -1)
                      ELSE (IF j < Len(t) /\ CharAt(t, j) = RBRACE THEN j + 1 ELSE -1),
             RunEnd(t, DotClass, i + 1))
    ELSE -1

\* The dots of the brace group that starts at offset i and ends at offset e
GroupSignature(t, i, e, incomplete) ==
    IF incomplete THEN Slice(t, i + 1, e) ELSE Slice(t, i + 1, e - 1)

\* The match of <anchor><brace group> at offset i, the anchor ending at
\* offset j (where the brace group starts) and holding `anchor`
AnchoredGroup(t, i, j, anchor, incomplete) ==
    Let(LAMBDA e :
            IF e # -1
            THEN [index |-> i, end |-> e, anchor |-> anchor,
                  signature |-> GroupSignature(t, j, e, incomplete)]
            ELSE NoMatch,
        BraceGroupEnd(t, j, incomplete))

\* "([^"]+)"\{([•○⦿]+)\}  tried at offset i
quotedTermPattern(t, i, incomplete) ==
    IF i < Len(t) /\ CharAt(t, i) = DQ
    THEN Let(LAMBDA j :
                 IF j > i + 1 /\ j < Len(t)
                 THEN AnchoredGroup(t, i, j + 1, Slice(t, i + 1, j), incomplete)
                 ELSE NoMatch,
             RunEnd(t, NotQuoteClass, i + 1))
    ELSE NoMatch

\* (?<!["\w])(\w+)\{([•○⦿]+)\}  tried at offset i
singleTermPattern(t, i, incomplete) ==
    IF /\ i < Len(t)
       /\ CharAt(t, i) \in WordClass
       /\ (i = 0 \/ CharAt(t, i - 1) \notin TermLookbehind)
    THEN Let(LAMBDA j : AnchoredGroup(t, i, j, Slice(t, i, j), incomplete),
             RunEnd(t, WordClass, i))
    ELSE NoMatch

\* ([<glyphs>])\{([•○⦿]+)\}  tried at offset i
glyphPattern(t, i, incomplete) ==
    IF i < Len(t) /\ CharAt(t, i) \in GLYPH_SYMBOLS
    THEN AnchoredGroup(t, i, i + 1, Slice(t, i, i + 1), incomplete)
    ELSE NoMatch

\* (?<![...])\{([•○⦿]+)\}  tried at offset i
referencePattern(t, i) ==
    IF i = 0 \/ CharAt(t, i - 1) \notin ReferenceLookbehind
    THEN AnchoredGroup(t, i, i, <<>>, FALSE)
    ELSE NoMatch

PatternAt(t, pattern, incomplete, i) ==
    CASE pattern = "quoted"    -> quotedTermPattern(t, i, incomplete)
      [] pattern = "single"    -> singleTermPattern(t, i, incomplete)
      [] pattern = "glyph"     -> glyphPattern(t, i, incomplete)
      [] pattern = "reference" -> referencePattern(t, i)

\* while ((match = pattern.exec(text)) !== null): the matches of a global
\* pattern, leftmost first, each search starting where the last match ended
RECURSIVE ExecAll(_, _, _, _)
ExecAll(t, pattern, incomplete, lastIndex) ==
    IF lastIndex >= Len(t) THEN <<>>
    ELSE Let(LAMBDA m :
                 IF m # NoMatch
                 THEN <<m>> \o ExecAll(t, pattern, incomplete, m.end)
                 ELSE ExecAll(t, pattern, incomplete, lastIndex + 1),
             PatternAt(t, pattern, incomplete, lastIndex))

-----------------------------------------------------------------------------
(* Annotation parser: dotid/parser.ts *)

NoGlyph == "null"

Min(a, b) == IF a < b THEN a ELSE b

\* The body of the loop of offsetToPosition
PositionStep(acc, char) ==
    IF char = NL THEN [line |-> acc.line + 1, column |-> 0]
    ELSE [line |-> acc.line, column |-> acc.column + 1]

\* The loop runs over i < offset && i < text.length
offsetToPosition(t, offset, length) ==
    Let(LAMBDA acc : [line |-> acc.line, column |-> acc.column,
                      offset |-> offset, length |-> length],
        ForEach(PositionStep, [line |-> 0, column |-> 0],
                Slice(t, 0, Min(offset, Len(t)))))

\* The test that only looks for a match that starts at the index
alreadyMatchedSameStart(ms, index) ==
    \E k \in 1..Len(ms) : ms[k].position.offset = index

\* matches.some((m) => m.position.offset <= index && index < m.position.offset + m.position.length)
alreadyMatched(ms, index) ==
    \E k \in 1..Len(ms) :
        /\ ms[k].position.offset <= index
        /\ index < ms[k].position.offset + ms[k].position.length

\* The DotIdMatch pushed for a regular-expression match m of a pattern
MakeMatch(t, m, pattern) ==
    [raw            |-> Slice(t, m.index, m.end),
     term           |-> IF pattern \in {"quoted", "single"} THEN m.anchor ELSE <<>>,
     glyph          |-> IF pattern = "glyph" THEN m.anchor[1] ELSE NoGlyph,
     dotId          |-> getDotIdBySignature(m.signature),
     position       |-> offsetToPosition(t, m.index, m.end - m.index),
     attachmentType |-> CASE pattern \in {"quoted", "single"} -> "term"
                          [] pattern = "glyph"                -> "glyph"
                          [] pattern = "reference"            -> "reference"]

\* The body of one while loop of parseDotIds for the match m of its pattern:
\* the match is pushed when its signature is a DotId and, unless the loop makes
\* no such check, when its index is inside no match pushed so far
PushStep(t, ms, m, pattern, checked) ==
    IF /\ getDotIdBySignature(m.signature) # UndefinedDotId
       /\ (checked => ~alreadyMatched(ms, m.index))
    THEN Append(ms, MakeMatch(t, m, pattern))
    ELSE ms

\* One while loop of parseDotIds
PushMatches(t, ms, pattern, incomplete, checked) ==
    ForEach(LAMBDA acc, m : PushStep(t, acc, m, pattern, checked),
            ms, ExecAll(t, pattern, incomplete, 0))

\* Insertion that keeps the order of equal offsets
InsertByOffset(sorted, m) ==
    LET p == Cardinality({k \in 1..Len(sorted) :
                            sorted[k].position.offset <= m.position.offset})
    IN  SubSeq(sorted, 1, p) \o <<m>> \o SubSeq(sorted, p + 1, Len(sorted))

\* matches.sort((a, b) => a.position.offset - b.position.offset): stable
SortByOffset(ms) == ForEach(InsertByOffset, <<>>, ms)

\* The four loops over the complete patterns: only the first makes no
\* alreadyMatched check
CompleteMatches(t) ==
    PushMatches(t,
        PushMatches(t,
            PushMatches(t,
                PushMatches(t, <<>>, "quoted", FALSE, FALSE),
                "single", FALSE, TRUE),
            "glyph", FALSE, TRUE),
        "reference", FALSE, TRUE)

\* The three loops over the incomplete patterns: single word, quoted, glyph
IncompleteMatches(t, ms) ==
    PushMatches(t,
        PushMatches(t,
            PushMatches(t, ms, "single", TRUE, TRUE),
            "quoted", TRUE, TRUE),
        "glyph", TRUE, TRUE)

parseDotIds(t, incomplete) ==
    SortByOffset(IF incomplete THEN IncompleteMatches(t, CompleteMatches(t))
                 ELSE CompleteMatches(t))

\* A declaration that is absent (`undefined`)
UndefinedDecl ==
    [term |-> <<>>, dotId |-> UndefinedDotId,
     position |-> [line |-> 0, column |-> 0, offset |-> -1, length |-> 0],
     isDeclaration |-> FALSE]

\* match.term || match.glyph || '(glyph)'
DeclTerm(m) ==
    IF m.term # <<>> THEN m.term
    ELSE IF m.glyph # NoGlyph THEN <<m.glyph>> ELSE <<"(glyph)">>

\* The loop body without the seenDotIds test
DeclarationStepKeepAll(acc, m) ==
    IF m.attachmentType # "reference"
    THEN [declarations |-> Append(acc.declarations,
                                  [term |-> DeclTerm(m), dotId |-> m.dotId,
                                   position |-> m.position, isDeclaration |-> TRUE]),
          seenDotIds   |-> acc.seenDotIds \cup {m.dotId.value}]
    ELSE acc

\* The body of the loop of extractDeclarations
DeclarationStep(acc, m) ==
    IF m.attachmentType # "reference" /\ m.dotId.value \notin acc.seenDotIds
    THEN [declarations |-> Append(acc.declarations,
                                  [term |-> DeclTerm(m), dotId |-> m.dotId,
                                   position |-> m.position, isDeclaration |-> TRUE]),
          seenDotIds   |-> acc.seenDotIds \cup {m.dotId.value}]
    ELSE acc

extractDeclarations(ms) ==
    ForEach(DeclarationStep, [declarations |-> <<>>, seenDotIds |-> {}], ms).declarations

\* map.get(value) of a Map filled by map.set(decl.dotId.value, decl) for each
\* declaration in turn: the last declaration of the list with the value
declarationMapGet(decls, value) ==
    LET ks == {k \in 1..Len(decls) : decls[k].dotId.value = value}
    IN  IF ks = {} THEN UndefinedDecl
        ELSE decls[CHOOSE k \in ks : \A j \in ks : j <= k]

\* The loop body without the branch for later attachments
ReferenceStepStandaloneOnly(decls, refs, m) ==
    IF m.attachmentType = "reference"
    THEN Append(refs, [dotId |-> m.dotId, position |-> m.position,
                       declaration |-> declarationMapGet(decls, m.dotId.value)])
    ELSE refs

\* The loop body with >= in place of >
ReferenceStepNotStrict(decls, refs, m) ==
    IF m.attachmentType = "reference"
    THEN Append(refs, [dotId |-> m.dotId, position |-> m.position,
                       declaration |-> declarationMapGet(decls, m.dotId.value)])
    ELSE IF /\ \E k \in 1..Len(decls) : decls[k].dotId.value = m.dotId.value
            /\ m.position.offset >=
                   declarationMapGet(decls, m.dotId.value).position.offset
         THEN Append(refs, [dotId |-> m.dotId, position |-> m.position,
                            declaration |-> declarationMapGet(decls, m.dotId.value)])
         ELSE refs

\* The body of the second loop of extractReferences
ReferenceStep(decls, refs, m) ==
    IF m.attachmentType = "reference"
    THEN Append(refs, [dotId |-> m.dotId, position |-> m.position,
                       declaration |-> declarationMapGet(decls, m.dotId.value)])
    ELSE IF /\ \E k \in 1..Len(decls) : decls[k].dotId.value = m.dotId.value
            /\ declarationMapGet(decls, m.dotId.value) # UndefinedDecl
            /\ m.position.offset >
                   declarationMapGet(decls, m.dotId.value).position.offset
         THEN Append(refs, [dotId |-> m.dotId, position |-> m.position,
                            declaration |-> declarationMapGet(decls, m.dotId.value)])
         ELSE refs

extractReferences(ms, decls) ==
    Let(LAMBDA ds : ForEach(LAMBDA refs, m : ReferenceStep(ds, refs, m), <<>>, ms),
        decls)

\* term.includes(' ')
IncludesSpace(term) == \E k \in 1..Len(term) : term[k] = SP

buildDeclaration(term, dotId) ==
    IF IncludesSpace(term)
    THEN <<DQ>> \o term \o <<DQ, LBRACE>> \o dotId.signature \o <<RBRACE>>
    ELSE term \o <<LBRACE>> \o dotId.signature \o <<RBRACE>>

\* The attachment written with value-many units in place of the signature
buildGlyphAttachmentUnary(glyph, dotId) ==
    <<glyph, LBRACE>> \o [k \in 1..dotId.value |-> UNIT] \o <<RBRACE>>

buildGlyphAttachment(glyph, dotId) ==
    <<glyph, LBRACE>> \o dotId.signature \o <<RBRACE>>

buildReference(dotId) == <<LBRACE>> \o dotId.signature \o <<RBRACE>>

-----------------------------------------------------------------------------
(* Validator: dotid/validator.ts *)

\* declaredIds.get(value) where declaredIds is the sequence of the entries of
\* the Map in insertion order
declaredIdsGet(declaredIds, value) ==
    LET ks == {k \in 1..Len(declaredIds) : declaredIds[k].dotId.value = value}
    IN  IF ks = {} THEN UndefinedDecl ELSE declaredIds[CHOOSE k \in ks : TRUE]

DuplicateError(decl, existing) ==
    [kind |-> "Duplicate declaration", value |-> decl.dotId.value,
     signature |-> decl.dotId.signature, term |-> existing.term,
     line |-> existing.position.line + 1,
     position |-> decl.position, severity |-> "error"]

OrphanError(ref) ==
    [kind |-> "Orphaned reference", value |-> ref.dotId.value,
     signature |-> ref.dotId.signature, term |-> <<>>, line |-> 0,
     position |-> ref.position, severity |-> "error"]

UnusedWarning(decl) ==
    [kind |-> "Unused declaration", value |-> decl.dotId.value,
     signature |-> decl.dotId.signature, term |-> decl.term, line |-> 0,
     position |-> decl.position, severity |-> "warning"]

\* The body of the loop over the declarations
DuplicateStep(acc, decl) ==
    IF declaredIdsGet(acc.declaredIds, decl.dotId.value) # UndefinedDecl
    THEN [acc EXCEPT
            !.duplicateDeclarations = Append(@, decl),
            !.errors = Append(@, DuplicateError(decl,
                           declaredIdsGet(acc.declaredIds, decl.dotId.value)))]
    ELSE [acc EXCEPT !.declaredIds = Append(@, decl)]

\* The loop body that also reports a reference placed before its declaration
OrphanStepOrdered(acc, ref) ==
    IF \/ declaredIdsGet(acc.declaredIds, ref.dotId.value) = UndefinedDecl
       \/ declaredIdsGet(acc.declaredIds, ref.dotId.value).position.offset
              > ref.position.offset
    THEN [acc EXCEPT !.orphanedReferences = Append(@, ref),
                     !.errors = Append(@, OrphanError(ref))]
    ELSE acc

\* The body of the loop over the references
OrphanStep(acc, ref) ==
    IF declaredIdsGet(acc.declaredIds, ref.dotId.value) = UndefinedDecl
    THEN [acc EXCEPT !.orphanedReferences = Append(@, ref),
                     !.errors = Append(@, OrphanError(ref))]
    ELSE acc

\* The loop body that files the unused declaration among the errors
UnusedStepAsError(referencedIds, acc, decl) ==
    IF decl.dotId.value \notin referencedIds
    THEN [acc EXCEPT !.warnings = Append(@, UnusedWarning(decl)),
                     !.errors = Append(@, UnusedWarning(decl))]
    ELSE acc

\* The body of the loop over the entries of declaredIds
UnusedStep(referencedIds, acc, decl) ==
    IF decl.dotId.value \notin referencedIds
    THEN [acc EXCEPT !.warnings = Append(@, UnusedWarning(decl))]
    ELSE acc

validateDotIds(decls, refs) ==
    Let(LAMBDA rs :
        Let(LAMBDA acc :
                [isValid               |-> Len(acc.errors) = 0,
                 orphanedReferences    |-> acc.orphanedReferences,
                 duplicateDeclarations |-> acc.duplicateDeclarations,
                 errors                |-> acc.errors,
                 warnings              |-> acc.warnings],
            Let(LAMBDA acc2 :
                    ForEach(LAMBDA a, d :
                                UnusedStep({rs[k].dotId.value : k \in 1..Len(rs)}, a, d),
                            acc2, acc2.declaredIds),
                ForEach(OrphanStep,
                        ForEach(DuplicateStep,
                                [declaredIds |-> <<>>, errors |-> <<>>, warnings |-> <<>>,
                                 orphanedReferences |-> <<>>,
                                 duplicateDeclarations |-> <<>>],
                                decls),
                        rs))),
        refs)

\* declPositions.get(value) of a value that was never set
UndefinedOffset == -1

\* declPositions.set(decl.dotId.value, decl.position.offset): the map as the
\* sequence of its entries
DeclPositionsStep(acc, decl) ==
    IF \E k \in 1..Len(acc) : acc[k].value = decl.dotId.value
    THEN [k \in 1..Len(acc) |->
             IF acc[k].value = decl.dotId.value
             THEN [value |-> decl.dotId.value, offset |-> decl.position.offset]
             ELSE acc[k]]
    ELSE Append(acc, [value |-> decl.dotId.value, offset |-> decl.position.offset])

\* declPositions.get(value)
declPositionsGet(declPositions, value) ==
    LET ks == {k \in 1..Len(declPositions) : declPositions[k].value = value}
    IN  IF ks = {} THEN UndefinedOffset
        ELSE declPositions[CHOOSE k \in ks : TRUE].offset

OrderNotice(ref) ==
    [kind |-> "Reference before declaration", value |-> ref.dotId.value,
     signature |-> ref.dotId.signature, term |-> <<>>, line |-> 0,
     position |-> ref.position, severity |-> "info"]

\* The loop body that also flags a reference at the offset of the declaration
ReferenceOrderStepNotStrict(declPositions, warnings, ref) ==
    IF /\ declPositionsGet(declPositions, ref.dotId.value) # UndefinedOffset
       /\ ref.position.offset <= declPositionsGet(declPositions, ref.dotId.value)
    THEN Append(warnings, OrderNotice(ref))
    ELSE warnings

\* The body of the loop over the references
ReferenceOrderStep(declPositions, warnings, ref) ==
    IF /\ declPositionsGet(declPositions, ref.dotId.value) # UndefinedOffset
       /\ ref.position.offset < declPositionsGet(declPositions, ref.dotId.value)
    THEN Append(warnings, OrderNotice(ref))
    ELSE warnings

checkReferenceOrder(decls, refs) ==
    Let(LAMBDA declPositions :
            ForEach(LAMBDA warnings, ref :
                        ReferenceOrderStep(declPositions, warnings, ref),
                    <<>>, refs),
        ForEach(DeclPositionsStep, <<>>, decls))

NoValidation ==
    [isValid |-> TRUE, orphanedReferences |-> <<>>, duplicateDeclarations |-> <<>>,
     errors |-> <<>>, warnings |-> <<>>]

-----------------------------------------------------------------------------
(* Tokenizer: parser/index.ts, glyphs/compounds.ts, glyphs/hebrew.ts *)

\* The keys of COMPOUNDS
COMPOUNDS ==
    { <<"U+29BF", "U+2301">>, <<"U+2301", "U+29BF">>, <<"U+2301", "U+21BB">>,
      <<"U+29BF", "U+2191">>, <<"U+29BF", "U+2193">>, <<"U+29BF", "U+26A0">>,
      <<"U+25C7", "U+2192">>, <<"U+00BF", "U+2192">>, <<"U+25C7", "U+2605">>,
      <<"U+2713", "U+00A7">>, <<"U+2302", "U+2192">>, <<"U+2191", "U+2302">>,
      <<"U+2193", "U+25A0">> }

\* char in GLYPHS
isGlyph(char) == char \in GLYPH_SYMBOLS

\* char in HEBREW_GLYPHS
isHebrewGlyph(char) == char \in HEBREW_GLYPHS

\* text.slice(from, to): both ends are clipped to the length of the text
SliceClipped(t, from, to) == Slice(t, Min(from, Len(t)), Min(to, Len(t)))

NoCompound == [symbols |-> <<>>, length |-> 0]

\* for (const len of [3, 2]): the candidate is the clipped slice, the length
\* returned is len
parseCompoundAt(t, position) ==
    IF SliceClipped(t, position, position + 3) \in COMPOUNDS
    THEN [symbols |-> SliceClipped(t, position, position + 3), length |-> 3]
    ELSE IF SliceClipped(t, position, position + 2) \in COMPOUNDS
         THEN [symbols |-> SliceClipped(t, position, position + 2), length |-> 2]
         ELSE NoCompound

\* The offsets occupied by the DotId matches
dotIdRanges(ms) ==
    UNION { ms[k].position.offset..(ms[k].position.offset + ms[k].position.length - 1) :
            k \in 1..Len(ms) }

\* The test that looks at the first offset only
isInsideDotIdRangeStartOnly(start, length, ranges) == start \in ranges

\* for (let i = start; i < start + length; i++) if (ranges.has(i)) return true
isInsideDotIdRange(start, length, ranges) ==
    \E i \in start..(start + length - 1) : i \in ranges

\* match.term || match.glyph || ''
TokenTerm(m) ==
    IF m.term # <<>> THEN m.term
    ELSE IF m.glyph # NoGlyph THEN <<m.glyph>> ELSE <<>>

\* The token pushed for a DotId match in the first pass
DotIdToken(m) ==
    [type     |-> IF m.attachmentType # "reference"
                  THEN "dotid_declaration" ELSE "dotid_reference",
     raw      |-> m.raw,
     position |-> m.position,
     term     |-> IF m.attachmentType # "reference" THEN TokenTerm(m) ELSE <<>>,
     dotId    |-> m.dotId]

\* The token pushed for a compound, a glyph or a Hebrew letter
SymbolToken(t, type, raw, i, length) ==
    [type     |-> type,
     raw      |-> raw,
     position |-> offsetToPosition(t, i, length),
     term     |-> <<>>,
     dotId    |-> UndefinedDotId]

\* The loop body that pushes a Hebrew token and forgets i++
ScanStepHebrewStuck(t, ranges, i, toks) ==
    IF i \in ranges THEN [i |-> i + 1, tokens |-> toks]
    ELSE Let(LAMBDA compound :
                 IF /\ compound # NoCompound
                    /\ ~isInsideDotIdRange(i, compound.length, ranges)
                 THEN [i      |-> i + compound.length,
                       tokens |-> Append(toks,
                                     SymbolToken(t, "compound", compound.symbols,
                                                 i, compound.length))]
                 ELSE IF isGlyph(CharAt(t, i))
                 THEN [i      |-> i + 1,
                       tokens |-> Append(toks,
                                     SymbolToken(t, "glyph", <<CharAt(t, i)>>, i, 1))]
                 ELSE IF isHebrewGlyph(CharAt(t, i))
                 THEN [i      |-> i,
                       tokens |-> Append(toks,
                                     SymbolToken(t, "hebrew", <<CharAt(t, i)>>, i, 1))]
                 ELSE [i |-> i + 1, tokens |-> toks],
             parseCompoundAt(t, i))

\* One iteration of the while loop of the second pass, at scan index i
ScanStep(t, ranges, i, toks) ==
    IF i \in ranges THEN [i |-> i + 1, tokens |-> toks]
    ELSE Let(LAMBDA compound :
                 IF /\ compound # NoCompound
                    /\ ~isInsideDotIdRange(i, compound.length, ranges)
                 THEN [i      |-> i + compound.length,
                       tokens |-> Append(toks,
                                     SymbolToken(t, "compound", compound.symbols,
                                                 i, compound.length))]
                 ELSE IF isGlyph(CharAt(t, i))
                 THEN [i      |-> i + 1,
                       tokens |-> Append(toks,
                                     SymbolToken(t, "glyph", <<CharAt(t, i)>>, i, 1))]
                 ELSE IF isHebrewGlyph(CharAt(t, i))
                 THEN [i      |-> i + 1,
                       tokens |-> Append(toks,
                                     SymbolToken(t, "hebrew", <<CharAt(t, i)>>, i, 1))]
                 ELSE [i |-> i + 1, tokens |-> toks],
             parseCompoundAt(t, i))

\* while (i < text.length)
RECURSIVE Scan(_, _, _, _)
Scan(t, ranges, i, toks) ==
    IF i >= Len(t) THEN toks
    ELSE Let(LAMBDA step : Scan(t, ranges, step.i, step.tokens),
             ScanStep(t, ranges, i, toks))

\* tokenize after its call of parseDotIds: first pass, second pass, sort
TokensOf(t, ms) ==
    Let(LAMBDA ranges :
            SortByOffset(Scan(t, ranges, 0, [k \in 1..Len(ms) |-> DotIdToken(ms[k])])),
        dotIdRanges(ms))

tokenize(t) == Let(LAMBDA ms : TokensOf(t, ms), parseDotIds(t, FALSE))

\* The tokens of type glyph or compound
GlyphsOf(toks) == SelectSeq(toks, LAMBDA tok : tok.type \in {"glyph", "compound"})

\* The keys of glyphsPerLine in insertion order
GlyphLinesStep(acc, g) ==
    IF \E k \in 1..Len(acc) : acc[k] = g.position.line THEN acc
    ELSE Append(acc, g.position.line)

\* glyphsPerLine.get(line)
GlyphCount(glyphs, line) ==
    Cardinality({k \in 1..Len(glyphs) : glyphs[k].position.line = line})

GlyphLimitWarning(line, count) ==
    [kind |-> "Glyph limit", value |-> count, signature |-> <<>>, term |-> <<>>,
     line |-> line + 1,
     position |-> [line |-> line, column |-> 0, offset |-> 0, length |-> 0],
     severity |-> "warning"]

\* The body of the loop over glyphsPerLine
GlyphLimitStep(glyphs, errs, line) ==
    IF GlyphCount(glyphs, line) > 3
    THEN Append(errs, GlyphLimitWarning(line, GlyphCount(glyphs, line)))
    ELSE errs

\* The errors of the result of parse
ErrorsOf(v, glyphs) ==
    ForEach(LAMBDA errs, line : GlyphLimitStep(glyphs, errs, line),
            v.errors \o v.warnings,
            ForEach(GlyphLinesStep, <<>>, glyphs))

\* parse(text); tokenize is given the matches its own call of parseDotIds returns
parse(t) ==
    Let(LAMBDA dotIdMatches :
        Let(LAMBDA decls :
            Let(LAMBDA refs :
                Let(LAMBDA v :
                    Let(LAMBDA toks :
                            [dotIdMatches |-> dotIdMatches,
                             tokens       |-> toks,
                             declarations |-> decls,
                             references   |-> refs,
                             validation   |-> v,
                             errors       |-> ErrorsOf(v, GlyphsOf(toks))],
                        TokensOf(t, dotIdMatches)),
                    validateDotIds(decls, refs)),
                extractReferences(dotIdMatches, decls)),
            extractDeclarations(dotIdMatches)),
        parseDotIds(t, FALSE))

-----------------------------------------------------------------------------
(* DotIdCounter: dotid/counter.ts *)

\* new DotIdCounter(): usedIds is the Set in insertion order, declarations
\* the values of the Map in insertion order
NewCounter == [usedIds |-> <<>>, declarations |-> <<>>]

\* this.usedIds.has(value)
isUsed(c, value) == \E k \in 1..Len(c.usedIds) : c.usedIds[k] = value

\* this.declarations.has(value)
hasDeclaration(c, value) ==
    \E k \in 1..Len(c.declarations) : c.declarations[k].dotId.value = value

\* this.declarations.get(value)
getDeclaration(c, value) == declaredIdsGet(c.declarations, value)

\* addDeclaration that replaces the stored declaration
addDeclarationOverwrite(c, declaration) ==
    [usedIds      |-> IF isUsed(c, declaration.dotId.value) THEN c.usedIds
                      ELSE Append(c.usedIds, declaration.dotId.value),
     declarations |-> Append(SelectSeq(c.declarations,
                                 LAMBDA d : d.dotId.value # declaration.dotId.value),
                             declaration)]

addDeclaration(c, declaration) ==
    [usedIds      |-> IF isUsed(c, declaration.dotId.value) THEN c.usedIds
                      ELSE Append(c.usedIds, declaration.dotId.value),
     declarations |-> IF hasDeclaration(c, declaration.dotId.value)
                      THEN c.declarations
                      ELSE Append(c.declarations, declaration)]

removeId(c, value) ==
    [usedIds      |-> SelectSeq(c.usedIds, LAMBDA u : u # value),
     declarations |-> SelectSeq(c.declarations, LAMBDA d : d.dotId.value # value)]

\* The scan that starts at 2
getNextAvailableFromTwo(c) ==
    IF \E value \in 2..10 : ~isUsed(c, value)
    THEN getDotIdByValue(CHOOSE value \in 2..10 :
                            /\ ~isUsed(c, value)
                            /\ \A w \in 2..(value - 1) : isUsed(c, w))
    ELSE UndefinedDotId

\* for (let value = 1; value <= 10; value++)
getNextAvailable(c) ==
    IF \E value \in 1..10 : ~isUsed(c, value)
    THEN getDotIdByValue(CHOOSE value \in 1..10 :
                            /\ ~isUsed(c, value)
                            /\ \A w \in 1..(value - 1) : isUsed(c, w))
    ELSE UndefinedDotId

getUsedCount(c) == Len(c.usedIds)

getAvailableCount(c) == 10 - Len(c.usedIds)

isApproachingCapacity(c) == Len(c.usedIds) >= 7

isAtCapacity(c) == Len(c.usedIds) >= 10

reset(c) == NewCounter

snapshot(c) == [usedIds |-> c.usedIds, declarations |-> c.declarations]

\* restore that does not reset the counter first
restoreNoReset(c, snapshot_) == ForEach(addDeclaration, c, snapshot_.declarations)

\* reset, then addDeclaration for each declaration of the snapshot
restore(c, snapshot_) == ForEach(addDeclaration, reset(c), snapshot_.declarations)

\* new DotIdCounter(declarations)
constructor(decls) == ForEach(addDeclaration, NewCounter, decls)

\* No snapshot was taken yet
NoSnapshot == [usedIds |-> <<0>>, declarations |-> <<>>]

-----------------------------------------------------------------------------
(* Editor decorations: obsidian-plugin/src/editor/decorations.ts *)

\* `${match.position.offset}-${match.position.length}`
posKey(m) == <<m.position.offset, m.position.length>>

\* The arguments of one builder.add(from, to, decoration) call; incomplete is
\* the third argument of the DotIdWidget the decoration carries
DecorationRange(m, incomplete) ==
    [from       |-> m.position.offset,
     to         |-> m.position.offset + m.position.length,
     incomplete |-> incomplete]

\* The first loop of buildDecorations: every complete match, in order
AddComplete(completeMatches) ==
    [k \in 1..Len(completeMatches) |-> DecorationRange(completeMatches[k], FALSE)]

\* The second loop: the matches of the incomplete mode whose position key is
\* not the key of a complete match, in order
AddIncomplete(completeMatches, allMatches) ==
    LET completePositions ==
            {posKey(completeMatches[k]) : k \in 1..Len(completeMatches)}
        rest == SelectSeq(allMatches, LAMBDA m : posKey(m) \notin completePositions)
    IN [k \in 1..Len(rest) |-> DecorationRange(rest[k], TRUE)]

\* buildDecorations(view, settings): the calls of builder.add, in call order
buildDecorations(t) ==
    Let(LAMBDA completeMatches :
            Let(LAMBDA allMatches :
                    AddComplete(completeMatches)
                        \o AddIncomplete(completeMatches, allMatches),
                parseDotIds(t, TRUE)),
        parseDotIds(t, FALSE))

-----------------------------------------------------------------------------
(* NoteObjectsView: obsidian-plugin/src/views/note-objects-view.ts *)

\* The delay of the debounce timer, in milliseconds
REFRESH_DELAY == 300

\* refreshTimeout = null; timer handles are the positive integers
NullTimeout == 0

\* The view after its constructor; timers is the runtime's set of pending
\* timers and timerCount the number of timers created so far
NewView ==
    [isOpen         |-> FALSE,
     refreshTimeout |-> NullTimeout,
     refreshCount   |-> 0,
     timers         |-> {},
     timerCount     |-> 0]

\* clearTimeout(handle): the timer is no longer pending; a handle of a timer
\* that has fired or was cleared before changes nothing
clearTimeout(timers, handle) == {tm \in timers : tm.id # handle}

\* refresh()
refresh(v) == [v EXCEPT !.refreshCount = @ + 1]

\* scheduleRefresh() without its clearTimeout
scheduleRefreshNoClear(v, now) ==
    [v EXCEPT !.timers = @ \cup {[id |-> v.timerCount + 1, due |-> now + REFRESH_DELAY]},
              !.timerCount = @ + 1,
              !.refreshTimeout = v.timerCount + 1]

\* scheduleRefresh() called at the time now: the pending timer is cleared and
\* a new one is armed, whose handle is kept in refreshTimeout
scheduleRefresh(v, now) ==
    LET pending == IF v.refreshTimeout # NullTimeout
                   THEN clearTimeout(v.timers, v.refreshTimeout)
                   ELSE v.timers
    IN [v EXCEPT !.timers = pending \cup {[id |-> v.timerCount + 1,
                                           due |-> now + REFRESH_DELAY]},
                 !.timerCount = @ + 1,
                 !.refreshTimeout = v.timerCount + 1]

\* onOpen(): the two workspace events are registered and the view is rendered
onOpen(v) == refresh([v EXCEPT !.isOpen = TRUE])

\* onClose() without its clearTimeout
onCloseNoClear(v) == [v EXCEPT !.isOpen = FALSE]

\* onClose(): the pending timer is cleared; the handlers registered with
\* registerEvent are detached when the view is unloaded
onClose(v) ==
    [v EXCEPT !.timers = IF v.refreshTimeout # NullTimeout
                         THEN clearTimeout(@, v.refreshTimeout)
                         ELSE @,
              !.isOpen = FALSE]

-----------------------------------------------------------------------------
(* Glyph suggestions: suggestions/rules.ts, suggestions/index.ts *)

\* The rules with their glyphs, in the order of the table.  A confidence is
\* written in hundredths: 0.75 is 75.  The patterns of a rule are not modelled:
\* which rules have a pattern that matches the text around the cursor is an
\* input of matchRules
SUGGESTION_RULES ==
    <<
       [id |-> "sentence_start_epistemic", context |-> "sentence_start",
        glyphs |-> <<"U+25C7", "U+00BF", "U+2191", "U+2193", "U+2302", "U+25A0">>, confidence |-> 30],
       [id |-> "causal_because", context |-> "after_causal",
        glyphs |-> <<"U+2192", "U+21BB">>, confidence |-> 75],
       [id |-> "comparison_contrast", context |-> "after_comparison",
        glyphs |-> <<"U+21C4">>, confidence |-> 80],
       [id |-> "analogy", context |-> "after_comparison",
        glyphs |-> <<"U+2248">>, confidence |-> 75],
       [id |-> "hedge_uncertainty", context |-> "after_hedge",
        glyphs |-> <<"U+25C7">>, confidence |-> 70],
       [id |-> "question", context |-> "question",
        glyphs |-> <<"U+00BF">>, confidence |-> 85],
       [id |-> "citation", context |-> "citation",
        glyphs |-> <<"U+00A7">>, confidence |-> 80],
       [id |-> "example", context |-> "example",
        glyphs |-> <<"U+2193">>, confidence |-> 75],
       [id |-> "abstraction", context |-> "sentence_start",
        glyphs |-> <<"U+2191">>, confidence |-> 70],
       [id |-> "warning", context |-> "warning",
        glyphs |-> <<"U+26A0">>, confidence |-> 75],
       [id |-> "definition", context |-> "definition",
        glyphs |-> <<"U+25A0">>, confidence |-> 70],
       [id |-> "core_concept", context |-> "definition",
        glyphs |-> <<"U+2302">>, confidence |-> 70],
       [id |-> "precedent", context |-> "example",
        glyphs |-> <<"U+2190">>, confidence |-> 70],
       [id |-> "increase", context |-> "unknown",
        glyphs |-> <<"U+25B2">>, confidence |-> 60],
       [id |-> "decrease", context |-> "unknown",
        glyphs |-> <<"U+25BC">>, confidence |-> 60],
       [id |-> "intent", context |-> "unknown",
        glyphs |-> <<"U+29BF">>, confidence |-> 70],
       [id |-> "execution", context |-> "unknown",
        glyphs |-> <<"U+2301">>, confidence |-> 65],
       [id |-> "feedback", context |-> "after_causal",
        glyphs |-> <<"U+21BB">>, confidence |-> 80],
       [id |-> "interaction", context |-> "unknown",
        glyphs |-> <<"U+2297">>, confidence |-> 65],
       [id |-> "confidence", context |-> "unknown",
        glyphs |-> <<"U+2713">>, confidence |-> 70],
       [id |-> "anchor", context |-> "unknown",
        glyphs |-> <<"U+2605">>, confidence |-> 65]
    >>

\* The ids of the rules
RuleIds == {SUGGESTION_RULES[k].id : k \in 1..Len(SUGGESTION_RULES)}

\* The body of the glyph loop of matchRules without its seenGlyphs check
AddRuleGlyphNoSeen(acc, rule, glyphSymbol) ==
    [suggestions |-> IF isGlyph(glyphSymbol)
                     THEN Append(acc.suggestions,
                                 [glyph      |-> glyphSymbol,
                                  confidence |-> rule.confidence,
                                  context    |-> rule.context])
                     ELSE acc.suggestions,
     seenGlyphs  |-> acc.seenGlyphs \cup {glyphSymbol}]

\* The body of the glyph loop of matchRules: a glyph seen before is skipped;
\* getGlyph(symbol) is defined for the symbols of GLYPHS
AddRuleGlyph(acc, rule, glyphSymbol) ==
    IF glyphSymbol \in acc.seenGlyphs THEN acc
    ELSE [suggestions |-> IF isGlyph(glyphSymbol)
                          THEN Append(acc.suggestions,
                                      [glyph      |-> glyphSymbol,
                                       confidence |-> rule.confidence,
                                       context    |-> rule.context])
                          ELSE acc.suggestions,
          seenGlyphs  |-> acc.seenGlyphs \cup {glyphSymbol}]

\* The body of the rule loop of matchRules; matched holds the ids of the rules
\* one of whose patterns tests true
RuleStep(acc, rule, matched) ==
    IF rule.id \in matched
    THEN ForEach(LAMBDA a, g : AddRuleGlyph(a, rule, g), acc, rule.glyphs)
    ELSE acc

\* Insertion that keeps the order of equal confidences
InsertByConfidence(sorted, s) ==
    LET p == Cardinality({k \in 1..Len(sorted) : sorted[k].confidence >= s.confidence})
    IN  SubSeq(sorted, 1, p) \o <<s>> \o SubSeq(sorted, p + 1, Len(sorted))

\* suggestions.sort((a, b) => b.confidence - a.confidence): stable
SortByConfidence(ss) == ForEach(InsertByConfidence, <<>>, ss)

\* matchRules(text, cursorPosition)
matchRules(matched) ==
    SortByConfidence(
        ForEach(LAMBDA acc, rule : RuleStep(acc, rule, matched),
                [suggestions |-> <<>>, seenGlyphs |-> {}],
                SUGGESTION_RULES).suggestions)

\* x.trimEnd(): the whitespace at the end is removed
RECURSIVE trimEnd(_)
trimEnd(t) ==
    IF Len(t) > 0 /\ t[Len(t)] \in {SP, NL} THEN trimEnd(SubSeq(t, 1, Len(t) - 1))
    ELSE t

\* The characters that end a sentence: /[.!?:;\n]/
SentenceEndClass == {".", "!", "?", ":", ";", NL}

\* isAtSentenceStart(text, cursorPosition)
isAtSentenceStart(t, cursorPosition) ==
    LET before == trimEnd(Slice(t, 0, cursorPosition))
    IN  IF Len(before) = 0 THEN TRUE
        ELSE before[Len(before)] \in SentenceEndClass

\* The glyphs getSuggestions offers at a sentence start
sentenceStartGlyphs ==
    <<"U+25C7", "U+00BF", "U+2191", "U+2193", "U+2302", "U+25A0", "U+00A7">>

\* The confidence of a glyph of sentenceStartGlyphs: 0.2
SENTENCE_START_CONFIDENCE == 20

\* The body of the loop over sentenceStartGlyphs: getCategoryForGlyph names
\* for every glyph the category GLYPHS gives it, so the glyph is found in its
\* category exactly when it is a glyph
SentenceStartStep(glyphSuggestions, symbol) ==
    IF \E k \in 1..Len(glyphSuggestions) : glyphSuggestions[k].glyph = symbol
    THEN glyphSuggestions
    ELSE IF isGlyph(symbol)
         THEN Append(glyphSuggestions,
                     [glyph      |-> symbol,
                      confidence |-> SENTENCE_START_CONFIDENCE,
                      context    |-> "sentence_start"])
         ELSE glyphSuggestions

\* The glyph suggestions of getSuggestions: matchRules, the glyphs of the
\* sentence start, and the final sort
glyphSuggestionsOf(t, cursorPosition, matched) ==
    SortByConfidence(
        IF isAtSentenceStart(t, cursorPosition)
        THEN ForEach(SentenceStartStep, matchRules(matched), sentenceStartGlyphs)
        ELSE matchRules(matched))

-----------------------------------------------------------------------------
(* Noun and pronoun tracking: suggestions/noun-tracker.ts *)

UPPER ==
    <<"A", "B", "C", "D", "E", "F", "G", "H", "I", "J", "K", "L", "M", 
      "N", "O", "P", "Q", "R", "S", "T", "U", "V", "W", "X", "Y", "Z">>

LOWER ==
    <<"a", "b", "c", "d", "e", "f", "g", "h", "i", "j", "k", "l", "m", 
      "n", "o", "p", "q", "r", "s", "t", "u", "v", "w", "x", "y", "z">>

\* [A-Z]
UpperClass == {UPPER[k] : k \in 1..Len(UPPER)}

\* [a-z]
LowerClass == {LOWER[k] : k \in 1..Len(LOWER)}

\* [a-zA-Z]
LetterClass == UpperClass \cup LowerClass

\* \w without the u flag: [A-Za-z0-9_]
NounWordClass ==
    LetterClass \cup {"0", "1", "2", "3", "4", "5", "6", "7", "8", "9", "_"}

\* \s: the whitespace the model writes
WhitespaceClass == {SP, NL}

\* c.toLowerCase()
toLowerCaseChar(c) ==
    IF c \in UpperClass THEN LOWER[CHOOSE k \in 1..Len(UPPER) : UPPER[k] = c] ELSE c

\* text.toLowerCase()
toLowerCase(t) == [k \in 1..Len(t) |-> toLowerCaseChar(t[k])]

\* \b at offset i: exactly one of the characters before and after is a word
\* character
WordBoundary(t, i) ==
    (i > 0 /\ CharAt(t, i - 1) \in NounWordClass)
        # (i < Len(t) /\ CharAt(t, i) \in NounWordClass)

\* The pronouns of PRONOUNS
PRONOUNS ==
    {
      <<"i", "t">>, <<"t", "h", "i", "s">>, <<"t", "h", "a", "t">>, <<"t", "h", "e", "y">>,
      <<"t", "h", "e", "m">>, <<"t", "h", "e", "s", "e">>, <<"t", "h", "o", "s", "e">>, <<"i", "t", "s">>,
      <<"t", "h", "e", "i", "r">>, <<"h", "e">>, <<"s", "h", "e">>, <<"h", "i", "m">>,
      <<"h", "e", "r">>, <<"h", "i", "s">>, <<"h", "e", "r", "s">>, <<"w", "h", "i", "c", "h">>,
      <<"w", "h", "o">>, <<"w", "h", "o", "m">>, <<"t", "h", "e", " ", "f", "o", "r", "m", "e", "r">>, <<"t", "h", "e", " ", "l", "a", "t", "t", "e", "r">>,
      <<"t", "h", "e", " ", "f", "i", "r", "s", "t">>, <<"t", "h", "e", " ", "s", "e", "c", "o", "n", "d">>
    }

\* The words of isCommonCapitalized
CommonCapitalized ==
    {
      <<"I">>, <<"T", "h", "e">>, <<"A">>, <<"A", "n">>, <<"T", "h", "i", "s">>, <<"T", "h", "a", "t">>,
      <<"T", "h", "e", "s", "e">>, <<"T", "h", "o", "s", "e">>, <<"I", "t">>, <<"H", "e">>, <<"S", "h", "e">>, <<"W", "e">>,
      <<"T", "h", "e", "y">>, <<"M", "y">>, <<"Y", "o", "u", "r">>, <<"H", "i", "s">>, <<"H", "e", "r">>, <<"I", "t", "s">>,
      <<"O", "u", "r">>, <<"T", "h", "e", "i", "r">>, <<"A", "n", "d">>, <<"B", "u", "t">>, <<"O", "r">>, <<"I", "f">>,
      <<"W", "h", "e", "n">>, <<"W", "h", "e", "r", "e">>, <<"W", "h", "a", "t">>, <<"W", "h", "y">>, <<"H", "o", "w">>, <<"I", "s">>,
      <<"A", "r", "e">>, <<"W", "a", "s">>, <<"W", "e", "r", "e">>, <<"B", "e">>, <<"B", "e", "e", "n">>, <<"B", "e", "i", "n", "g">>,
      <<"H", "a", "v", "e">>, <<"H", "a", "s">>, <<"H", "a", "d">>, <<"D", "o">>, <<"D", "o", "e", "s">>, <<"D", "i", "d">>,
      <<"W", "i", "l", "l">>, <<"W", "o", "u", "l", "d">>, <<"C", "o", "u", "l", "d">>, <<"S", "h", "o", "u", "l", "d">>, <<"M", "a", "y">>, <<"M", "i", "g", "h", "t">>,
      <<"M", "u", "s", "t">>, <<"C", "a", "n">>
    }

isCommonCapitalized(word) == word \in CommonCapitalized

\* [A-Z][a-z]+ tried at offset i: the offset where the greedy match ends, or -1
CapWordEnd(t, i) ==
    IF i < Len(t) /\ CharAt(t, i) \in UpperClass
    THEN Let(LAMBDA j : IF j > i + 1 THEN j ELSE -1, RunEnd(t, LowerClass, i + 1))
    ELSE -1

\* (?:\s+[A-Z][a-z]+)*\b after a capitalised word that ends at offset j: the
\* group is repeated while the next word ends at a word boundary
RECURSIVE ProperExtend(_, _)
ProperExtend(t, j) ==
    Let(LAMBDA k :
            Let(LAMBDA e : IF e # -1 /\ WordBoundary(t, e) THEN ProperExtend(t, e) ELSE j,
                IF k > j THEN CapWordEnd(t, k) ELSE -1),
        RunEnd(t, WhitespaceClass, j))

\* PROPER_NOUN_PATTERN tried at offset i: the offset where the match ends, or -1
ProperNounEnd(t, i) ==
    IF WordBoundary(t, i)
    THEN Let(LAMBDA j : IF j # -1 /\ WordBoundary(t, j) THEN ProperExtend(t, j) ELSE -1,
             CapWordEnd(t, i))
    ELSE -1

\* The offset of the next character q at or after offset i, or -1
RECURSIVE IndexOfChar(_, _, _)
IndexOfChar(t, q, i) ==
    IF i >= Len(t) THEN -1
    ELSE IF CharAt(t, i) = q THEN i
    ELSE IndexOfChar(t, q, i + 1)

\* QUOTED_TERM_PATTERN tried at offset i: "([^"]+)" or '([^']+)'
QuotedTermEnd(t, i) ==
    IF i < Len(t) /\ CharAt(t, i) \in {DQ, "'"}
    THEN Let(LAMBDA j : IF j > i + 1 THEN j + 1 ELSE -1,
             IndexOfChar(t, CharAt(t, i), i + 1))
    ELSE -1

\* CAPITALIZED_PATTERN tried at offset i
CapitalizedEnd(t, i) ==
    IF WordBoundary(t, i) /\ i < Len(t) /\ CharAt(t, i) \in UpperClass
    THEN Let(LAMBDA j : IF WordBoundary(t, j) THEN j ELSE -1,
             RunEnd(t, LetterClass, i + 1))
    ELSE -1

\* while ((match = pattern.exec(text)) !== null) for a pattern with the g
\* flag: the matches from offset i on, each [index, end]
RECURSIVE ExecFrom(_, _, _)
ExecFrom(End(_, _), t, i) ==
    IF i > Len(t) THEN <<>>
    ELSE Let(LAMBDA e :
                 IF e = -1 THEN ExecFrom(End, t, i + 1)
                 ELSE <<[index |-> i, end |-> e]>> \o ExecFrom(End, t, e),
             End(t, i))

\* getLineNumber(text, offset)
getLineNumber(t, offset) ==
    Cardinality({i \in 0..(Min(offset, Len(t)) - 1) : CharAt(t, i) = NL})

\* The body of the three loops of trackNouns: the term is pushed unless its
\* lower-case form was seen
NounStep(acc, t, term, index, type) ==
    IF toLowerCase(term) \in acc.seen THEN acc
    ELSE [nouns |-> Append(acc.nouns,
                           [text     |-> term,
                            type     |-> type,
                            position |-> index,
                            line     |-> getLineNumber(t, index),
                            hasDotId |-> FALSE]),
          seen  |-> acc.seen \cup {toLowerCase(term)}]

\* Insertion that keeps the order of equal positions
InsertByPosition(sorted, n) ==
    LET p == Cardinality({k \in 1..Len(sorted) : sorted[k].position <= n.position})
    IN  SubSeq(sorted, 1, p) \o <<n>> \o SubSeq(sorted, p + 1, Len(sorted))

\* trackNouns(text): proper nouns, quoted terms, capitalised words, sorted by
\* position
trackNouns(t) ==
    Let(LAMBDA proper :
        Let(LAMBDA quoted :
            Let(LAMBDA capitalized :
                    ForEach(InsertByPosition, <<>>, capitalized.nouns),
                ForEach(LAMBDA acc, m :
                            Let(LAMBDA term :
                                    IF Len(term) > 2 /\ ~isCommonCapitalized(term)
                                    THEN NounStep(acc, t, term, m.index, "capitalized")
                                    ELSE acc,
                                Slice(t, m.index, m.end)),
                        quoted, ExecFrom(CapitalizedEnd, t, 0))),
            ForEach(LAMBDA acc, m :
                        NounStep(acc, t, Slice(t, m.index + 1, m.end - 1), m.index, "quoted"),
                    proper, ExecFrom(QuotedTermEnd, t, 0))),
        ForEach(LAMBDA acc, m : NounStep(acc, t, Slice(t, m.index, m.end), m.index, "proper"),
                [nouns |-> <<>>, seen |-> {}], ExecFrom(ProperNounEnd, t, 0)))

\* text.split(/\s+/) from offset i on, word being the characters of the piece
\* read so far
RECURSIVE SplitFrom(_, _, _)
SplitFrom(t, i, word) ==
    IF i >= Len(t) THEN <<word>>
    ELSE IF CharAt(t, i) \in WhitespaceClass
    THEN <<word>> \o SplitFrom(t, RunEnd(t, WhitespaceClass, i), <<>>)
    ELSE SplitFrom(t, i + 1, Append(word, CharAt(t, i)))

\* The class of word.replace(/[.,;:!?'"()[\]{}]/g, '')
PunctuationClass ==
    {".", ",", ";", ":", "!", "?", "'", DQ, "(", ")", "[", "]", LBRACE, RBRACE}

cleanWord(word) == SelectSeq(word, LAMBDA c : c \notin PunctuationClass)

\* The default of the parameter maxDistance of filterRecentCandidates
maxDistance == 300

\* text.lastIndexOf('\n\n', from)
lastIndexOfBlankLine(t, from) ==
    LET S == {i \in 0..Min(from, Len(t) - 2) : CharAt(t, i) = NL /\ CharAt(t, i + 1) = NL}
    IN  IF S = {} THEN -1 ELSE CHOOSE i \in S : \A j \in S : j <= i

\* filterRecentCandidates(candidates, text, pronounPosition)
filterRecentCandidates(candidates, t, pronounPosition) ==
    LET nearby == SelectSeq(candidates,
                            LAMBDA c : pronounPosition - c.position < maxDistance)
        paragraphStart == lastIndexOfBlankLine(t, pronounPosition)
        inParagraph == SelectSeq(nearby, LAMBDA c : c.position > paragraphStart)
    IN  IF Len(inParagraph) > 0 THEN inParagraph
        ELSE SubSeq(nearby, Len(nearby) - Min(3, Len(nearby)) + 1, Len(nearby))

\* One pronoun with its candidates
TrackedPronoun(t, word, offset, recentCandidates) ==
    [text        |-> word,
     position    |-> offset,
     line        |-> getLineNumber(t, offset),
     candidates  |-> recentCandidates,
     isAmbiguous |-> Len(recentCandidates) > 1]

\* The body of the loop of trackPronouns: offset += word.length + 1
PronounStep(acc, t, nouns, word) ==
    Let(LAMBDA recentCandidates :
            [pronouns |-> IF cleanWord(word) \in PRONOUNS /\ Len(recentCandidates) > 0
                          THEN Append(acc.pronouns,
                                      TrackedPronoun(t, cleanWord(word), acc.offset,
                                                     recentCandidates))
                          ELSE acc.pronouns,
             offset   |-> acc.offset + Len(word) + 1],
        filterRecentCandidates(
            SelectSeq(nouns, LAMBDA n : n.position < acc.offset /\ ~n.hasDotId),
            t, acc.offset))

\* trackPronouns(text, nouns)
trackPronouns(t, nouns) ==
    ForEach(LAMBDA acc, word : PronounStep(acc, t, nouns, word),
            [pronouns |-> <<>>, offset |-> 0],
            SplitFrom(toLowerCase(t), 0, <<>>)).pronouns

\* existingDeclarations in the loop that marks the nouns: the first noun whose
\* lower-case text is the lower-case term of the declaration gets hasDotId
MarkStep(nouns, decl) ==
    LET S == {k \in 1..Len(nouns) : toLowerCase(nouns[k].text) = toLowerCase(decl.term)}
    IN  IF S = {} THEN nouns
        ELSE [nouns EXCEPT ![CHOOSE k \in S : \A j \in S : k <= j].hasDotId = TRUE]

\* existingDeclarations.map((d) => d.dotId.value) as a set
usedDotIdsOf(existingDeclarations) ==
    {existingDeclarations[k].dotId.value : k \in 1..Len(existingDeclarations)}

\* while (usedDotIds.has(nextDotIdValue) && nextDotIdValue <= 10) nextDotIdValue++
RECURSIVE NextFree(_, _)
NextFree(usedDotIds, nextDotIdValue) ==
    IF nextDotIdValue \in usedDotIds /\ nextDotIdValue <= 10
    THEN NextFree(usedDotIds, nextDotIdValue + 1)
    ELSE nextDotIdValue

\* A DotIdSuggestion; a confidence is written in hundredths
DotIdSuggestion(term, dotId, confidence) ==
    [action     |-> "add_declaration",
     term       |-> term,
     dotId      |-> dotId,
     confidence |-> confidence]

\* The body of the candidate loop of suggestDotIdsFromPronouns; marked holds
\* the texts of the nouns whose hasDotId the loop has set
CandidateStep(acc, candidate) ==
    IF candidate.hasDotId \/ candidate.text \in acc.marked THEN acc
    ELSE Let(LAMBDA next :
                 IF next <= 10 /\ getDotIdByValue(next) # UndefinedDotId
                 THEN [suggestions    |-> Append(acc.suggestions,
                                                 DotIdSuggestion(candidate.text,
                                                                 getDotIdByValue(next), 70)),
                       usedDotIds     |-> acc.usedDotIds \cup {next},
                       nextDotIdValue |-> next,
                       marked         |-> acc.marked \cup {candidate.text}]
                 ELSE [acc EXCEPT !.nextDotIdValue = next],
             NextFree(acc.usedDotIds, acc.nextDotIdValue))

\* suggestDotIdsFromPronouns(text, existingDeclarations)
suggestDotIdsFromPronouns(t, existingDeclarations) ==
    Let(LAMBDA nouns :
            ForEach(LAMBDA acc, pronoun :
                        IF pronoun.isAmbiguous
                        THEN ForEach(CandidateStep, acc, pronoun.candidates)
                        ELSE acc,
                    [suggestions    |-> <<>>,
                     usedDotIds     |-> usedDotIdsOf(existingDeclarations),
                     nextDotIdValue |-> 1,
                     marked         |-> {}],
                    trackPronouns(t, nouns)).suggestions,
        ForEach(MarkStep, trackNouns(t), existingDeclarations))

\* new RegExp(`\\b${escapeRegex(noun.text)}\\b`, 'gi') tried at offset i
TermEnd(t, term, i) ==
    IF /\ i + Len(term) <= Len(t)
       /\ WordBoundary(t, i)
       /\ toLowerCase(Slice(t, i, i + Len(term))) = toLowerCase(term)
       /\ WordBoundary(t, i + Len(term))
    THEN i + Len(term)
    ELSE -1

\* The number of matches of the pattern of the term in the text
countOf(t, term) == Len(ExecFrom(LAMBDA u, i : TermEnd(u, term, i), t, 0))

\* The body of the second loop of suggestDotIdsFromRepetition with a threshold
\* of four occurrences
RepetitionStepFour(acc, t, noun) ==
    IF countOf(t, noun.text) >= 4 /\ toLowerCase(noun.text) \notin acc.declaredTerms
    THEN Let(LAMBDA next :
                 IF next <= 10 /\ getDotIdByValue(next) # UndefinedDotId
                 THEN [suggestions    |-> Append(acc.suggestions,
                                                 DotIdSuggestion(noun.text,
                                                                 getDotIdByValue(next), 60)),
                       usedDotIds     |-> acc.usedDotIds \cup {next},
                       nextDotIdValue |-> next,
                       declaredTerms  |-> acc.declaredTerms \cup {toLowerCase(noun.text)}]
                 ELSE [acc EXCEPT !.nextDotIdValue = next],
             NextFree(acc.usedDotIds, acc.nextDotIdValue))
    ELSE acc

\* The body of the second loop of suggestDotIdsFromRepetition
RepetitionStep(acc, t, noun) ==
    IF countOf(t, noun.text) >= 3 /\ toLowerCase(noun.text) \notin acc.declaredTerms
    THEN Let(LAMBDA next :
                 IF next <= 10 /\ getDotIdByValue(next) # UndefinedDotId
                 THEN [suggestions    |-> Append(acc.suggestions,
                                                 DotIdSuggestion(noun.text,
                                                                 getDotIdByValue(next), 60)),
                       usedDotIds     |-> acc.usedDotIds \cup {next},
                       nextDotIdValue |-> next,
                       declaredTerms  |-> acc.declaredTerms \cup {toLowerCase(noun.text)}]
                 ELSE [acc EXCEPT !.nextDotIdValue = next],
             NextFree(acc.usedDotIds, acc.nextDotIdValue))
    ELSE acc

\* suggestDotIdsFromRepetition(text, existingDeclarations)
suggestDotIdsFromRepetition(t, existingDeclarations) ==
    ForEach(LAMBDA acc, noun : RepetitionStep(acc, t, noun),
            [suggestions    |-> <<>>,
             usedDotIds     |-> usedDotIdsOf(existingDeclarations),
             nextDotIdValue |-> 1,
             declaredTerms  |-> {toLowerCase(existingDeclarations[k].term) :
                                    k \in 1..Len(existingDeclarations)}],
            trackNouns(t)).suggestions

\* The body of the loop of deduplicateDotIdSuggestions
DeduplicateStep(acc, suggestion) ==
    IF toLowerCase(suggestion.term) \in acc.seen THEN acc
    ELSE [result |-> Append(acc.result, suggestion),
          seen   |-> acc.seen \cup {toLowerCase(suggestion.term)}]

\* deduplicateDotIdSuggestions(suggestions)
deduplicateDotIdSuggestions(suggestions) ==
    SortByConfidence(
        ForEach(DeduplicateStep, [result |-> <<>>, seen |-> {}], suggestions).result)

\* getSuggestions(text, cursorPosition, existingDeclarations); matched holds
\* the ids of the rules that match the text around the cursor
getSuggestions(t, cursorPosition, existingDeclarations, matched) ==
    [glyphs          |-> glyphSuggestionsOf(t, cursorPosition, matched),
     dotIds          |-> deduplicateDotIdSuggestions(
                             suggestDotIdsFromPronouns(t, existingDeclarations)
                                 \o suggestDotIdsFromRepetition(t, existingDeclarations)),
     atSentenceStart |-> isAtSentenceStart(t, cursorPosition)]

-----------------------------------------------------------------------------
(* Documents: the specification Spec runs parseDotIds and parse on a text *)

MaxUnits == 3

\* What precedes a brace group, or stands alone
Anchors == { <<DQ>>, <<"a">>, <<NL>>, <<TEN>> }

\* Brace groups: the values 1 and 5, a dot string that is no signature, and
\* an unclosed group
Groups ==
    { <<LBRACE, UNIT, RBRACE>>, <<LBRACE, FIVE, RBRACE>>,
      <<LBRACE, FIVE, FIVE, RBRACE>>, <<LBRACE, UNIT>> }

\* An anchor with its brace group written as one unit
Attachments ==
    { <<"a", LBRACE, UNIT, RBRACE>>, <<"a", LBRACE, FIVE, RBRACE>>,
      <<"a", LBRACE, UNIT>>, <<TEN, LBRACE, UNIT, RBRACE>>,
      <<DQ, "a", DQ, LBRACE, UNIT, RBRACE>>, <<DQ, LBRACE, UNIT>> }

Units == Anchors \cup Groups \cup Attachments

RECURSIVE TextsOf(_)
TextsOf(n) ==
    IF n = 0 THEN {<<>>}
    ELSE LET S == TextsOf(n - 1) IN S \cup {t \o u : t \in S, u \in Units}

Texts == TextsOf(MaxUnits)

NoArgs ==
    /\ argTerm = <<>>
    /\ argGlyph = NoGlyph
    /\ argValue = 0

NoResults ==
    /\ includeIncomplete = FALSE
    /\ matches = <<>>
    /\ declarations = <<>>
    /\ references = <<>>
    /\ validation = NoValidation
    /\ tokens = <<>>
    /\ errors = <<>>
    /\ scanIndex = 0

NoSuggestions == [glyphs |-> <<>>, dotIds |-> <<>>, atSentenceStart |-> FALSE]

NoHost ==
    /\ added = <<>>
    /\ view = NewView
    /\ clock = 0
    /\ lastEvent = 0
    /\ argCursor = 0
    /\ argMatched = {}
    /\ trackedNouns = <<>>
    /\ trackedPronouns = <<>>
    /\ suggestionResult = NoSuggestions

NoCounter ==
    /\ counter = NewCounter
    /\ snap = NoSnapshot
    /\ taken = NewCounter
    /\ ops = 0

Init ==
    /\ pc = "ready"
    /\ text \in Texts
    /\ NoResults
    /\ NoArgs
    /\ NoHost
    /\ NoCounter

\* parseDotIds(text, includeIncomplete), as the editor decorations call it
ParseDotIds ==
    /\ pc = "ready"
    /\ \E incomplete \in BOOLEAN :
          /\ includeIncomplete' = incomplete
          /\ matches' = parseDotIds(text, incomplete)
    /\ pc' = "matched"
    /\ UNCHANGED <<hostVars, text, declarations, references, validation,
                   argTerm, argGlyph, argValue, tokenVars, counterVars>>

\* parse(text): parseDotIds, extractDeclarations, extractReferences, validateDotIds
Parse ==
    /\ pc = "ready"
    /\ \E r \in {parse(text)} :
          /\ matches' = r.dotIdMatches
          /\ declarations' = r.declarations
          /\ references' = r.references
          /\ validation' = r.validation
          /\ tokens' = r.tokens
          /\ errors' = r.errors
    /\ pc' = "parsed"
    /\ UNCHANGED <<hostVars, text, includeIncomplete, argTerm, argGlyph, argValue,
                   scanIndex, counterVars>>

\* The view plugin's constructor or update builds the decorations of the text
BuildDecorations ==
    /\ pc = "ready"
    /\ added' = buildDecorations(text)
    /\ pc' = "decorated"
    /\ UNCHANGED <<text, includeIncomplete, matches, declarations, references,
                   validation, argTerm, argGlyph, argValue, tokenVars, counterVars,
                   viewVars, suggestVars>>

Next == ParseDotIds \/ Parse \/ BuildDecorations

Spec == Init /\ [][Next]_vars

-----------------------------------------------------------------------------
(* Texts of glyphs: the specification SpecTokenizer runs tokenize and parse *)

MaxPieces == 3

\* Two glyphs that make a compound in either order, two that make none, a
\* line break, a Hebrew letter, and three DotId matches
Pieces ==
    { <<TEN>>, <<EXECUTION>>, <<SQUARE, STAR>>, <<NL>>, <<ALEF>>,
      <<EXECUTION, LBRACE, UNIT, RBRACE>>, <<LBRACE, UNIT, RBRACE>>,
      <<"a", LBRACE, FIVE, RBRACE>> }

RECURSIVE PieceTextsOf(_)
PieceTextsOf(n) ==
    IF n = 0 THEN {<<>>}
    ELSE LET S == PieceTextsOf(n - 1) IN S \cup {t \o u : t \in S, u \in Pieces}

PieceTexts == PieceTextsOf(MaxPieces)

InitTokenizer ==
    /\ pc = "ready"
    /\ text \in PieceTexts
    /\ NoResults
    /\ NoArgs
    /\ NoHost
    /\ NoCounter

\* tokenize(text)
Tokenize ==
    /\ pc = "ready"
    /\ tokens' = tokenize(text)
    /\ pc' = "tokenized"
    /\ UNCHANGED <<hostVars, text, includeIncomplete, matches, declarations, references,
                   validation, errors, scanIndex, argTerm, argGlyph, argValue,
                   counterVars>>

NextTokenizer == Tokenize \/ Parse

SpecTokenizer == InitTokenizer /\ [][NextTokenizer]_vars

-----------------------------------------------------------------------------
(* The scan loop of tokenize, one iteration per step: SpecScan *)

\* tokenize up to the loop: parseDotIds, the ranges, the first pass, let i = 0
StartScan ==
    /\ pc = "ready"
    /\ \E ms \in {parseDotIds(text, FALSE)} :
          /\ matches' = ms
          /\ tokens' = [k \in 1..Len(ms) |-> DotIdToken(ms[k])]
    /\ scanIndex' = 0
    /\ pc' = "scanning"
    /\ UNCHANGED <<hostVars, text, includeIncomplete, declarations, references, validation,
                   errors, argTerm, argGlyph, argValue, counterVars>>

\* One iteration of while (i < text.length)
ScanIteration ==
    /\ pc = "scanning"
    /\ scanIndex < Len(text)
    /\ \E step \in {ScanStep(text, dotIdRanges(matches), scanIndex, tokens)} :
          /\ scanIndex' = step.i
          /\ tokens' = step.tokens
    /\ UNCHANGED <<hostVars, pc, text, includeIncomplete, matches, declarations, references,
                   validation, errors, argTerm, argGlyph, argValue, counterVars>>

\* The loop is left: sort the tokens and return them
ReturnTokens ==
    /\ pc = "scanning"
    /\ scanIndex >= Len(text)
    /\ tokens' = SortByOffset(tokens)
    /\ pc' = "tokenized"
    /\ UNCHANGED <<hostVars, text, includeIncomplete, matches, declarations, references,
                   validation, errors, scanIndex, argTerm, argGlyph, argValue,
                   counterVars>>

\* parse(text) after its call of tokenize: the declarations, the references,
\* the validation and the diagnostics
ParseTokenized ==
    /\ pc = "tokenized"
    /\ \E decls \in {extractDeclarations(matches)} :
       \E refs \in {extractReferences(matches, decls)} :
       \E v \in {validateDotIds(decls, refs)} :
          /\ declarations' = decls
          /\ references' = refs
          /\ validation' = v
          /\ errors' = ErrorsOf(v, GlyphsOf(tokens))
    /\ pc' = "parsed"
    /\ UNCHANGED <<hostVars, text, includeIncomplete, matches, tokens, scanIndex,
                   argTerm, argGlyph, argValue, counterVars>>

NextScan == StartScan \/ ScanIteration \/ ReturnTokens \/ ParseTokenized

SpecScan == InitTokenizer /\ [][NextScan]_vars

\* The caller runs tokenize to its end: a step that can be taken is taken
SpecScanFair == SpecScan /\ WF_vars(NextScan)

-----------------------------------------------------------------------------
(* The resolver and the validator called on lists: SpecResolver *)

MaxItems == 3

\* DotId values and offsets of the entries of the lists
InputValues == {1, 2, 3}
InputOffsets == {0, 1}
InputKinds == {"term", "glyph", "reference"}

InputPosition(o) == [line |-> 0, column |-> o, offset |-> o, length |-> 1]

\* The term written at an offset
InputTerm(o) == IF o = 0 THEN <<"a">> ELSE <<"b">>

InputMatch(kind, v, o) ==
    [raw            |-> <<>>,
     term           |-> IF kind = "term" THEN InputTerm(o) ELSE <<>>,
     glyph          |-> IF kind = "glyph" THEN SQUARE ELSE NoGlyph,
     dotId          |-> getDotIdByValue(v),
     position       |-> InputPosition(o),
     attachmentType |-> kind]

InputDecl(v, o) ==
    [term |-> InputTerm(o), dotId |-> getDotIdByValue(v),
     position |-> InputPosition(o), isDeclaration |-> TRUE]

InputRef(v, o) ==
    [dotId |-> getDotIdByValue(v), position |-> InputPosition(o),
     declaration |-> UndefinedDecl]

RECURSIVE SeqsUpTo(_, _)
\* The sequences of at most n elements of S
SeqsUpTo(S, n) ==
    IF n = 0 THEN {<<>>}
    ELSE LET R == SeqsUpTo(S, n - 1) IN R \cup {Append(r, x) : r \in R, x \in S}

InputMatches == {InputMatch(k, v, o) : k \in InputKinds, v \in InputValues, o \in InputOffsets}
InputDecls   == {InputDecl(v, o) : v \in InputValues, o \in InputOffsets}
InputRefs    == {InputRef(v, o) : v \in InputValues, o \in InputOffsets}

DistinctValues(decls) ==
    \A j, k \in 1..Len(decls) : decls[j].dotId.value = decls[k].dotId.value => j = k

SpanEnd(p) == p.offset + p.length

\* Ascending offsets: the order in which parseDotIds returns its matches
SortedAscending(ms) ==
    \A j, k \in 1..Len(ms) : j < k => ms[j].position.offset <= ms[k].position.offset

InitResolver ==
    /\ text = <<>>
    /\ includeIncomplete = FALSE
    /\ validation = NoValidation
    /\ tokens = <<>>
    /\ errors = <<>>
    /\ scanIndex = 0
    /\ NoArgs
    /\ NoHost
    /\ NoCounter
    /\ \/ /\ pc = "extractDeclarations"
          /\ matches \in SeqsUpTo(InputMatches, MaxItems)
          /\ SortedAscending(matches)
          /\ declarations = <<>>
          /\ references = <<>>
       \/ /\ pc = "extractReferences"
          /\ \E n \in 0..MaxItems :
                /\ matches \in SeqsUpTo(InputMatches, n)
                /\ declarations \in SeqsUpTo(InputDecls, MaxItems - n)
          /\ SortedAscending(matches)
          /\ DistinctValues(declarations)
          /\ references = <<>>
       \/ /\ pc = "validateDotIds"
          /\ matches = <<>>
          /\ \E n \in 0..MaxItems :
                /\ declarations \in SeqsUpTo(InputDecls, n)
                /\ references \in SeqsUpTo(InputRefs, MaxItems - n)

ExtractDeclarations ==
    /\ pc = "extractDeclarations"
    /\ declarations' = extractDeclarations(matches)
    /\ pc' = "extractedDeclarations"
    /\ UNCHANGED <<hostVars, text, includeIncomplete, matches, references, validation,
                   argTerm, argGlyph, argValue, tokenVars, counterVars>>

ExtractReferences ==
    /\ pc = "extractReferences"
    /\ references' = extractReferences(matches, declarations)
    /\ pc' = "extractedReferences"
    /\ UNCHANGED <<hostVars, text, includeIncomplete, matches, declarations, validation,
                   argTerm, argGlyph, argValue, tokenVars, counterVars>>

ValidateDotIds ==
    /\ pc = "validateDotIds"
    /\ validation' = validateDotIds(declarations, references)
    /\ pc' = "validated"
    /\ UNCHANGED <<hostVars, text, includeIncomplete, matches, declarations, references,
                   argTerm, argGlyph, argValue, tokenVars, counterVars>>

\* checkReferenceOrder(declarations, references) on the lists just validated
CheckReferenceOrder ==
    /\ pc = "validated"
    /\ errors' = checkReferenceOrder(declarations, references)
    /\ pc' = "checkedReferenceOrder"
    /\ UNCHANGED <<hostVars, text, includeIncomplete, matches, declarations, references,
                   validation, tokens, scanIndex, argTerm, argGlyph, argValue,
                   counterVars>>

NextResolver ==
    ExtractDeclarations \/ ExtractReferences \/ ValidateDotIds \/ CheckReferenceOrder

SpecResolver == InitResolver /\ [][NextResolver]_vars

-----------------------------------------------------------------------------
(* The text builders and their round trip through the parser: SpecBuilder *)

MaxTermLen == 3

\* The characters of the terms handed to buildDeclaration
TermAlphabet == {"a", SP, HYPHEN, DQ}

InputTerms == SeqsUpTo(TermAlphabet, MaxTermLen)

InitBuilder ==
    /\ text = <<>>
    /\ NoResults
    /\ NoCounter
    /\ NoHost
    /\ argValue \in 1..10
    /\ \/ /\ pc = "buildDeclaration"
          /\ argTerm \in InputTerms
          /\ argGlyph = NoGlyph
       \/ /\ pc = "buildGlyphAttachment"
          /\ argTerm = <<>>
          /\ argGlyph \in GLYPH_SYMBOLS
       \/ /\ pc = "buildReference"
          /\ argTerm = <<>>
          /\ argGlyph = NoGlyph

BuildDeclaration ==
    /\ pc = "buildDeclaration"
    /\ text' = buildDeclaration(argTerm, getDotIdByValue(argValue))
    /\ pc' = "builtDeclaration"
    /\ UNCHANGED <<hostVars, includeIncomplete, matches, declarations, references,
                   validation, argTerm, argGlyph, argValue, tokenVars, counterVars>>

BuildGlyphAttachment ==
    /\ pc = "buildGlyphAttachment"
    /\ text' = buildGlyphAttachment(argGlyph, getDotIdByValue(argValue))
    /\ pc' = "builtGlyphAttachment"
    /\ UNCHANGED <<hostVars, includeIncomplete, matches, declarations, references,
                   validation, argTerm, argGlyph, argValue, tokenVars, counterVars>>

BuildReference ==
    /\ pc = "buildReference"
    /\ text' = buildReference(getDotIdByValue(argValue))
    /\ pc' = "builtReference"
    /\ UNCHANGED <<hostVars, includeIncomplete, matches, declarations, references,
                   validation, argTerm, argGlyph, argValue, tokenVars, counterVars>>

\* parseAnnotations(built): parseDotIds with includeIncomplete left to its default
ParseBuilt ==
    /\ pc \in {"builtDeclaration", "builtGlyphAttachment", "builtReference"}
    /\ matches' = parseDotIds(text, FALSE)
    /\ pc' = CASE pc = "builtDeclaration"     -> "parsedDeclaration"
               [] pc = "builtGlyphAttachment" -> "parsedGlyphAttachment"
               [] pc = "builtReference"       -> "parsedReference"
    /\ UNCHANGED <<hostVars, text, includeIncomplete, declarations, references,
                   validation, argTerm, argGlyph, argValue, tokenVars, counterVars>>

NextBuilder == BuildDeclaration \/ BuildGlyphAttachment \/ BuildReference \/ ParseBuilt

SpecBuilder == InitBuilder /\ [][NextBuilder]_vars

-----------------------------------------------------------------------------
(* DotIdCounter under sequences of its operations: SpecCounter *)

MaxOps == 4

\* The values the operations are called with: the first and the last
OpValues == {1, 10}

\* The declaration of value v; the offset selects one of two terms
CounterDecl(v, o) == InputDecl(v, o)

\* new DotIdCounter(declarations) with the declarations of the values 1..n
InitCounter ==
    /\ pc = "constructed"
    /\ text = <<>>
    /\ NoResults
    /\ NoArgs
    /\ NoHost
    /\ \E n \in 0..10 : counter = constructor([v \in 1..n |-> CounterDecl(v, 0)])
    /\ snap = NoSnapshot
    /\ taken = NewCounter
    /\ ops = 0

\* addDeclaration(declaration); argValue and argTerm record the argument
AddDeclaration ==
    /\ ops < MaxOps
    /\ \E v \in OpValues, o \in InputOffsets :
          /\ counter' = addDeclaration(counter, CounterDecl(v, o))
          /\ argValue' = v
          /\ argTerm' = CounterDecl(v, o).term
    /\ pc' = "added"
    /\ ops' = ops + 1
    /\ UNCHANGED <<hostVars, text, includeIncomplete, matches, declarations, references,
                   validation, argGlyph, tokenVars, snap, taken>>

\* removeId(value); argValue records the argument
RemoveId ==
    /\ ops < MaxOps
    /\ \E v \in OpValues :
          /\ counter' = removeId(counter, v)
          /\ argValue' = v
    /\ pc' = "removed"
    /\ ops' = ops + 1
    /\ UNCHANGED <<hostVars, text, includeIncomplete, matches, declarations, references,
                   validation, argTerm, argGlyph, tokenVars, snap, taken>>

Reset ==
    /\ ops < MaxOps
    /\ counter' = reset(counter)
    /\ pc' = "reset"
    /\ ops' = ops + 1
    /\ UNCHANGED <<hostVars, text, includeIncomplete, matches, declarations, references,
                   validation, argTerm, argGlyph, argValue, tokenVars, snap, taken>>

\* s = snapshot(); taken remembers the counter s was taken from
Snapshot ==
    /\ ops < MaxOps
    /\ snap' = snapshot(counter)
    /\ taken' = counter
    /\ pc' = "snapshotTaken"
    /\ ops' = ops + 1
    /\ UNCHANGED <<hostVars, text, includeIncomplete, matches, declarations, references,
                   validation, argTerm, argGlyph, argValue, tokenVars, counter>>

\* restore(s) with the last snapshot taken
Restore ==
    /\ ops < MaxOps
    /\ snap # NoSnapshot
    /\ counter' = restore(counter, snap)
    /\ pc' = "restored"
    /\ ops' = ops + 1
    /\ UNCHANGED <<hostVars, text, includeIncomplete, matches, declarations, references,
                   validation, argTerm, argGlyph, argValue, tokenVars, snap, taken>>

NextCounter == AddDeclaration \/ RemoveId \/ Reset \/ Snapshot \/ Restore

SpecCounter == InitCounter /\ [][NextCounter]_vars

-----------------------------------------------------------------------------
(* NoteObjectsView under workspace events and the passing of time: SpecView *)

MaxTime == 900

MaxEvents == 4

\* The timers that are due
DueTimers == {tm \in view.timers : tm.due <= clock}

InitView ==
    /\ pc = "constructed"
    /\ text = <<>>
    /\ NoResults
    /\ NoArgs
    /\ NoHost
    /\ NoCounter

OnOpen ==
    /\ pc = "constructed"
    /\ view' = onOpen(view)
    /\ pc' = "opened"
    /\ UNCHANGED <<text, includeIncomplete, matches, declarations, references,
                   validation, argTerm, argGlyph, argValue, tokenVars, counterVars,
                   editorVars, suggestVars, clock, lastEvent>>

\* An event may arrive when the view is open; none arrives while a timer is
\* due, and none so late that its timer would be due after MaxTime
EventArrives ==
    /\ view.isOpen
    /\ view.timerCount < MaxEvents
    /\ DueTimers = {}
    /\ clock + REFRESH_DELAY <= MaxTime

\* The handler of 'active-leaf-change'
ActiveLeafChange ==
    /\ EventArrives
    /\ view' = scheduleRefresh(view, clock)
    /\ lastEvent' = clock
    /\ pc' = "active-leaf-change"
    /\ UNCHANGED <<text, includeIncomplete, matches, declarations, references,
                   validation, argTerm, argGlyph, argValue, tokenVars, counterVars,
                   editorVars, suggestVars, clock>>

\* The handler of 'editor-change'
EditorChange ==
    /\ EventArrives
    /\ view' = scheduleRefresh(view, clock)
    /\ lastEvent' = clock
    /\ pc' = "editor-change"
    /\ UNCHANGED <<text, includeIncomplete, matches, declarations, references,
                   validation, argTerm, argGlyph, argValue, tokenVars, counterVars,
                   editorVars, suggestVars, clock>>

\* A due timer fires: it leaves the pending timers and its callback calls refresh()
TimerFires ==
    /\ \E tm \in DueTimers :
          view' = refresh([view EXCEPT !.timers = @ \ {tm}])
    /\ pc' = "refreshed"
    /\ UNCHANGED <<text, includeIncomplete, matches, declarations, references,
                   validation, argTerm, argGlyph, argValue, tokenVars, counterVars,
                   editorVars, suggestVars, clock, lastEvent>>

\* Time passes, by a third of the delay or up to the next due time
Tick ==
    /\ DueTimers = {}
    /\ clock < MaxTime
    /\ \E d \in {REFRESH_DELAY \div 3} \cup {tm.due - clock : tm \in view.timers} :
          /\ \A tm \in view.timers : clock + d <= tm.due
          /\ clock + d <= MaxTime
          /\ clock' = clock + d
    /\ UNCHANGED <<pc, text, includeIncomplete, matches, declarations, references,
                   validation, argTerm, argGlyph, argValue, tokenVars, counterVars,
                   editorVars, suggestVars, view, lastEvent>>

OnClose ==
    /\ view.isOpen
    /\ view' = onClose(view)
    /\ pc' = "closed"
    /\ UNCHANGED <<text, includeIncomplete, matches, declarations, references,
                   validation, argTerm, argGlyph, argValue, tokenVars, counterVars,
                   editorVars, suggestVars, clock, lastEvent>>

NextView ==
    OnOpen \/ ActiveLeafChange \/ EditorChange \/ TimerFires \/ Tick \/ OnClose

SpecView == InitView /\ [][NextView]_vars

\* The runtime runs a due timer, and time does not stop
SpecViewFair == SpecView /\ WF_vars(TimerFires) /\ WF_vars(Tick)

-----------------------------------------------------------------------------
(* getSuggestions on texts of nouns and pronouns: SpecNouns *)

MaxWords == 3

\* A name, the name written twice, a pronoun, a name written three times, one
\* more space, and a blank line; a word is followed by one space
NounPieces ==
    { <<"S", "a", "m", SP>>, <<"S", "a", "m", SP, "S", "a", "m", SP>>,
      <<"i", "t", SP>>,
      <<"T", "o", "m", SP, "t", "o", "m", SP, "t", "o", "m", SP>>,
      <<SP>>, <<NL, NL>> }

RECURSIVE NounTextsOf(_)
NounTextsOf(n) ==
    IF n = 0 THEN {<<>>}
    ELSE LET S == NounTextsOf(n - 1) IN S \cup {t \o u : t \in S, u \in NounPieces}

\* The declaration of the value v; its term is v times the letter x
DeclaredX(v) ==
    [term |-> [k \in 1..v |-> "x"], dotId |-> getDotIdByValue(v),
     position |-> InputPosition(0), isDeclaration |-> TRUE]

\* The declarations getSuggestions is given: none, the values 1..9 or 1..10
\* declared for other terms, or the value 2 declared for Sam
ExistingDeclarations ==
    {[v \in 1..n |-> DeclaredX(v)] : n \in {0, 9, 10}}
        \cup {<<[DeclaredX(2) EXCEPT !.term = <<"S", "a", "m">>]>>}

InitNouns ==
    /\ pc = "ready"
    /\ text \in NounTextsOf(MaxWords)
    /\ includeIncomplete = FALSE
    /\ matches = <<>>
    /\ declarations \in ExistingDeclarations
    /\ references = <<>>
    /\ validation = NoValidation
    /\ tokens = <<>>
    /\ errors = <<>>
    /\ scanIndex = 0
    /\ NoArgs
    /\ NoCounter
    /\ added = <<>>
    /\ view = NewView
    /\ clock = 0
    /\ lastEvent = 0
    /\ argCursor = Len(text)
    /\ argMatched = {}
    /\ trackedNouns = <<>>
    /\ trackedPronouns = <<>>
    /\ suggestionResult = NoSuggestions

\* getSuggestions(text, cursorPosition, existingDeclarations)
GetSuggestions ==
    /\ pc = "ready"
    /\ suggestionResult' = getSuggestions(text, argCursor, declarations, argMatched)
    /\ pc' = "suggested"
    /\ UNCHANGED <<text, includeIncomplete, matches, declarations, references,
                   validation, argTerm, argGlyph, argValue, tokenVars, counterVars,
                   editorVars, viewVars, argCursor, argMatched, trackedNouns,
                   trackedPronouns>>

\* The first half of suggestDotIdsFromPronouns: the nouns are tracked and
\* marked, and trackPronouns is called with them
TrackPronouns ==
    /\ pc = "ready"
    /\ \E ns \in {ForEach(MarkStep, trackNouns(text), declarations)} :
          /\ trackedNouns' = ns
          /\ trackedPronouns' = trackPronouns(text, ns)
    /\ pc' = "tracked"
    /\ UNCHANGED <<text, includeIncomplete, matches, declarations, references,
                   validation, argTerm, argGlyph, argValue, tokenVars, counterVars,
                   editorVars, viewVars, argCursor, argMatched, suggestionResult>>

NextNouns == GetSuggestions \/ TrackPronouns

SpecNouns == InitNouns /\ [][NextNouns]_vars

-----------------------------------------------------------------------------
(* getSuggestions for every set of matching rules: SpecGlyphs *)

MaxMatched == 2

\* The texts before the cursor: empty, inside a word, after a full stop, after
\* a full stop and a space, after a word and a space, after a line break
CursorTexts ==
    { <<>>, <<"a">>, <<"a", ".">>, <<"a", ".", SP>>, <<"a", SP>>, <<"a", NL>> }

\* The sets of at most n rule ids
RECURSIVE RuleSetsUpTo(_)
RuleSetsUpTo(n) ==
    IF n = 0 THEN {{}}
    ELSE LET S == RuleSetsUpTo(n - 1) IN S \cup {R \cup {r} : R \in S, r \in RuleIds}

InitGlyphs ==
    /\ pc = "ready"
    /\ text \in CursorTexts
    /\ NoResults
    /\ NoArgs
    /\ NoCounter
    /\ added = <<>>
    /\ view = NewView
    /\ clock = 0
    /\ lastEvent = 0
    /\ argCursor \in 0..Len(text)
    /\ argMatched \in RuleSetsUpTo(MaxMatched)
    /\ trackedNouns = <<>>
    /\ trackedPronouns = <<>>
    /\ suggestionResult = NoSuggestions

NextGlyphs == GetSuggestions

SpecGlyphs == InitGlyphs /\ [][NextGlyphs]_vars

-----------------------------------------------------------------------------
(* Properties *)

Range(s) == {s[k] : k \in 1..Len(s)}

Map(F(_), s) == [k \in 1..Len(s) |-> F(s[k])]

NonOverlapping(ms) ==
    \A j, k \in 1..Len(ms) :
        j < k => \/ SpanEnd(ms[j].position) <= ms[k].position.offset
                 \/ SpanEnd(ms[k].position) <= ms[j].position.offset

ParseDotIdsReturned == pc \in {"matched", "parsed"}

\* C1: whatever the value of includeIncomplete, the matches parseDotIds
\* returns are in ascending order of offset and no two of them overlap.
C1_SortedNonOverlapping ==
    ParseDotIdsReturned => SortedAscending(matches) /\ NonOverlapping(matches)

\* The indices of the term and glyph matches of a value
NonReferenceOf(ms, v) ==
    {k \in 1..Len(ms) : ms[k].attachmentType # "reference" /\ ms[k].dotId.value = v}

Declared(decls, v) == \E k \in 1..Len(decls) : decls[k].dotId.value = v

\* A standalone match, or an attachment placed after the declaration of its value
IsReferenceMatch(decls, m) ==
    \/ m.attachmentType = "reference"
    \/ \E k \in 1..Len(decls) :
          /\ decls[k].dotId.value = m.dotId.value
          /\ m.position.offset > decls[k].position.offset

ExpectedReference(decls, m) ==
    [dotId       |-> m.dotId,
     position    |-> m.position,
     declaration |-> IF Declared(decls, m.dotId.value)
                     THEN decls[CHOOSE k \in 1..Len(decls) :
                                    decls[k].dotId.value = m.dotId.value]
                     ELSE UndefinedDecl]

\* C3: extractReferences returns exactly the standalone matches and the term
\* and glyph matches whose offset is strictly greater than the offset of the
\* declaration of their value; each is linked to the declaration of its value
\* when that value is declared and carries no link otherwise.
C3_ReferencesAfterDeclaration ==
    pc = "extractedReferences" =>
        references =
            Map(LAMBDA m : ExpectedReference(declarations, m),
                SelectSeq(matches, LAMBDA m : IsReferenceMatch(declarations, m)))

\* An attachment after the declaration of its value is returned with its
\* link, and the one at the offset of the declaration is not returned
C3_Witness ==
    /\ pc = "extractedReferences"
    /\ Len(declarations) = 1
    /\ \E j, k \in 1..Len(matches) :
          /\ matches[j].attachmentType # "reference"
          /\ matches[k].attachmentType # "reference"
          /\ matches[j].dotId.value = declarations[1].dotId.value
          /\ matches[k].dotId.value = declarations[1].dotId.value
          /\ matches[j].position.offset = declarations[1].position.offset
          /\ matches[k].position.offset > declarations[1].position.offset
          /\ Len(references) = 1
          /\ references[1].position = matches[k].position
          /\ references[1].declaration = declarations[1]

DuplicateErrorsOf(v) ==
    {e \in 1..Len(validation.errors) :
        /\ validation.errors[e].kind = "Duplicate declaration"
        /\ validation.errors[e].value = v}

\* C4: a parsed and validated document in which two different terms are
\* attached to one value has exactly one duplicate-declaration error for that
\* value, placed at the second attachment and citing the term and the line of
\* the first.
C4_DuplicateDeclarationReported ==
    pc = "parsed" =>
        \A j, k \in 1..Len(matches) :
            ( /\ j < k
              /\ matches[j].attachmentType = "term"
              /\ matches[k].attachmentType = "term"
              /\ matches[j].dotId.value = matches[k].dotId.value
              /\ matches[j].term # matches[k].term
              /\ NonReferenceOf(matches, matches[j].dotId.value) = {j, k} )
            => \E e \in 1..Len(validation.errors) :
                  /\ DuplicateErrorsOf(matches[j].dotId.value) = {e}
                  /\ validation.errors[e].position = matches[k].position
                  /\ validation.errors[e].term = matches[j].term
                  /\ validation.errors[e].line = matches[j].position.line + 1

ErrorsOfKind(kind) == SelectSeq(validation.errors, LAMBDA e : e.kind = kind)

\* The references whose value no declaration carries
UndeclaredReferences ==
    SelectSeq(references, LAMBDA r : ~Declared(declarations, r.dotId.value))

ValuesOf(s) == Map(LAMBDA x : x.dotId.value, s)

\* C5: validateDotIds reports exactly one orphaned-reference error for each
\* reference whose value has no declaration, lists those references in
\* orphanedReferences, and reports none for a reference whose value is
\* declared, wherever the declaration is placed; declarations of 1 and 2 with
\* one reference to 3 give one orphan error and no duplicate error.
C5_OrphanErrors ==
    pc = "validated" =>
        /\ validation.orphanedReferences = UndeclaredReferences
        /\ Map(LAMBDA e : e.position, ErrorsOfKind("Orphaned reference"))
               = Map(LAMBDA r : r.position, UndeclaredReferences)
        /\ Map(LAMBDA e : e.value, ErrorsOfKind("Orphaned reference"))
               = ValuesOf(UndeclaredReferences)
        /\ (ValuesOf(declarations) = <<1, 2>> /\ ValuesOf(references) = <<3>>)
               => /\ Len(ErrorsOfKind("Orphaned reference")) = 1
                  /\ Len(ErrorsOfKind("Duplicate declaration")) = 0

\* Declarations of 1 and 2 and one reference to 3: one error, an orphan
C5_Witness ==
    /\ pc = "validated"
    /\ ValuesOf(declarations) = <<1, 2>>
    /\ ValuesOf(references) = <<3>>
    /\ Len(validation.errors) = 1
    /\ validation.errors[1].kind = "Orphaned reference"
    /\ validation.errors[1].position = references[1].position

Referenced(refs, v) == \E k \in 1..Len(refs) : refs[k].dotId.value = v

UnusedWarningsOf(v) ==
    {w \in 1..Len(validation.warnings) :
        /\ validation.warnings[w].kind = "Unused declaration"
        /\ validation.warnings[w].value = v}

\* C6: validateDotIds emits exactly one unused-declaration warning for each
\* declared value that no reference uses and no other warning, and isValid is
\* true exactly when there is no orphaned-reference error and no
\* duplicate-declaration error.
C6_UnusedWarningsAndValidity ==
    pc = "validated" =>
        /\ \A v \in 1..Len(DOT_IDS) :
              Cardinality(UnusedWarningsOf(v)) =
                  IF Declared(declarations, v) /\ ~Referenced(references, v)
                  THEN 1 ELSE 0
        /\ \A w \in 1..Len(validation.warnings) :
              /\ validation.warnings[w].kind = "Unused declaration"
              /\ validation.warnings[w].severity = "warning"
        /\ validation.isValid
              <=> /\ ErrorsOfKind("Orphaned reference") = <<>>
                  /\ ErrorsOfKind("Duplicate declaration") = <<>>

\* A declaration nobody refers to beside one that is used: one warning, and
\* the result is valid
C6_Witness ==
    /\ pc = "validated"
    /\ ValuesOf(declarations) = <<1, 2>>
    /\ ValuesOf(references) = <<2>>
    /\ Len(validation.warnings) = 1
    /\ validation.warnings[1].value = 1
    /\ validation.isValid

\* C7: for every value from 1 to 10 and every non-empty term without a double
\* quote, parsing the text buildDeclaration returns gives exactly one match,
\* of kind term, with that term and that value, spanning the whole text.
C7_DeclarationRoundTrip ==
    (pc = "parsedDeclaration" /\ argTerm # <<>> /\ DQ \notin Range(argTerm)) =>
        /\ Len(matches) = 1
        /\ matches[1].attachmentType = "term"
        /\ matches[1].term = argTerm
        /\ matches[1].dotId.value = argValue
        /\ matches[1].position.offset = 0
        /\ matches[1].position.length = Len(text)

\* C8: for every registered glyph and every DotId, parsing the text
\* buildGlyphAttachment returns gives exactly one match, of kind glyph, with
\* that glyph and that DotId; for every DotId, parsing the text buildReference
\* returns gives exactly one match, of kind reference, with that DotId.
C8_GlyphAndReferenceRoundTrip ==
    /\ pc = "parsedGlyphAttachment" =>
          /\ Len(matches) = 1
          /\ matches[1].attachmentType = "glyph"
          /\ matches[1].glyph = argGlyph
          /\ matches[1].dotId = getDotIdByValue(argValue)
    /\ pc = "parsedReference" =>
          /\ Len(matches) = 1
          /\ matches[1].attachmentType = "reference"
          /\ matches[1].dotId = getDotIdByValue(argValue)

\* The glyph that is also a dot primitive attached to a cluster DotId
C8_Witness ==
    /\ pc = "parsedGlyphAttachment"
    /\ argGlyph = TEN
    /\ argValue = 8
    /\ text = <<TEN, LBRACE, UNIT, UNIT, TEN, RBRACE>>
    /\ Len(matches) = 1
    /\ matches[1].attachmentType = "glyph"

\* The offset of the opening brace of the brace group of a match
GroupStart(m) ==
    CHOOSE i \in m.position.offset..(SpanEnd(m.position) - 1) :
        /\ CharAt(text, i) = LBRACE
        /\ \A j \in (i + 1)..(SpanEnd(m.position) - 1) : CharAt(text, j) # LBRACE

\* The dot string that follows an opening brace
DotsAfter(i) == Slice(text, i + 1, RunEnd(text, DotClass, i + 1))

\* A closed brace group whose dot string is none of the signatures
InvalidGroupAt(i) ==
    /\ CharAt(text, i) = LBRACE
    /\ DotsAfter(i) # <<>>
    /\ RunEnd(text, DotClass, i + 1) < Len(text)
    /\ CharAt(text, RunEnd(text, DotClass, i + 1)) = RBRACE
    /\ \A k \in 1..Len(DOT_IDS) : DOT_IDS[k].signature # DotsAfter(i)

\* C9: the brace group of every match holds exactly one of the ten
\* signatures and the match carries the DotId of that signature; a brace group
\* holding any other dot string gives no match and no diagnostic, and decoding
\* its dot string returns the absent result.
C9_OnlyPredefinedSignatures ==
    ParseDotIdsReturned =>
        /\ \A m \in Range(matches) :
              \E k \in 1..Len(DOT_IDS) :
                 /\ DOT_IDS[k].signature = DotsAfter(GroupStart(m))
                 /\ m.dotId = DOT_IDS[k]
        /\ \A i \in 0..(Len(text) - 1) :
              InvalidGroupAt(i) =>
                 /\ getDotIdBySignature(DotsAfter(i)) = UndefinedDotId
                 /\ ~isValidSignature(DotsAfter(i))
                 /\ \A m \in Range(matches) : GroupStart(m) # i
        /\ pc = "parsed" =>
              \A e \in Range(validation.errors) \cup Range(validation.warnings) :
                 \E m \in Range(matches) : e.position = m.position

\* A text with a group of two FIVE and a group of one UNIT: one match only
C9_Witness ==
    /\ pc = "parsed"
    /\ \E i \in 0..(Len(text) - 1) :
          InvalidGroupAt(i) /\ DotsAfter(i) = <<FIVE, FIVE>>
    /\ Len(matches) = 1
    /\ matches[1].dotId.value = 1
    /\ Len(validation.warnings) = 1

\* C10: for every value v from 1 to 10, decoding the signature of the DotId
\* of v returns the DotId of value v, and the ten signatures are pairwise
\* distinct.
C10_SignatureRoundTrip ==
    /\ Len(DOT_IDS) = 10
    /\ argValue \in 1..Len(DOT_IDS) =>
          /\ getDotIdByValue(argValue).value = argValue
          /\ getDotIdBySignature(getDotIdByValue(argValue).signature).value = argValue
    /\ \A j, k \in 1..Len(DOT_IDS) :
          DOT_IDS[j].signature = DOT_IDS[k].signature => j = k

\* The reference built for 8 is decoded as 8
C10_Witness ==
    /\ pc = "parsedReference"
    /\ argValue = 8
    /\ text = <<LBRACE>> \o getDotIdByValue(8).signature \o <<RBRACE>>
    /\ Len(matches) = 1
    /\ matches[1].dotId.value = 8

\* s is a proper prefix of t
ProperPrefix(s, t) == Len(s) < Len(t) /\ SubSeq(t, 1, Len(s)) = s

\* C11: no signature among the ten DotId signatures is a proper prefix of
\* another signature.
C11_NoSignatureIsPrefix ==
    argValue \in 1..Len(DOT_IDS) =>
        \A k \in 1..Len(DOT_IDS) :
            /\ ~ProperPrefix(getDotIdByValue(argValue).signature, DOT_IDS[k].signature)
            /\ ~ProperPrefix(DOT_IDS[k].signature, getDotIdByValue(argValue).signature)

\* A match whose brace group is closed
IsComplete(m) == m.raw[Len(m.raw)] = RBRACE

\* C12: with includeIncomplete = true no unclosed match starts at the start
\* of, or inside, a match whose brace group is closed, and every match of the
\* default mode is in the result.
C12_IncompleteOutsideComplete ==
    (pc = "matched" /\ includeIncomplete) =>
        /\ \A m, c \in Range(matches) :
              (~IsComplete(m) /\ IsComplete(c)) =>
                 ~( /\ c.position.offset <= m.position.offset
                    /\ m.position.offset < SpanEnd(c.position) )
        /\ Range(parseDotIds(text, FALSE)) \subseteq Range(matches)

\* An unclosed quoted term that starts at the closing quote of a closed
\* quoted term is left out
C12_Witness ==
    /\ pc = "matched"
    /\ includeIncomplete
    /\ text = <<DQ, "a", DQ, LBRACE, UNIT, RBRACE, DQ, LBRACE, UNIT>>
    /\ Len(matches) = 1
    /\ IsComplete(matches[1])

\* C13: no brace group is emitted as a standalone reference when the
\* character before its opening brace is a double quote, a word character or
\* a registered glyph; the class excluded by the standalone-reference pattern
\* holds every symbol of the glyph registry.
C13_ReferenceNotAfterAnchor ==
    /\ GLYPH_SYMBOLS \subseteq ReferenceLookbehind
    /\ pc \in {"parsedDeclaration", "parsedGlyphAttachment", "parsedReference"} =>
          \A m \in Range(matches) :
             m.attachmentType = "reference" =>
                \/ m.position.offset = 0
                \/ CharAt(text, m.position.offset - 1)
                       \notin ({DQ} \cup WordClass \cup GLYPH_SYMBOLS)

\* A brace group written after the glyph U+05EA is read as its attachment
C13_Witness ==
    /\ pc = "parsedGlyphAttachment"
    /\ argGlyph = "U+05EA"
    /\ CharAt(text, 1) = LBRACE
    /\ \A m \in Range(matches) : m.attachmentType # "reference"
    /\ Len(matches) = 1

\* The tokens the second pass of tokenize pushes
IsSymbolToken(tok) == tok.type \in {"glyph", "compound", "hebrew"}

Disjoint(p, q) == SpanEnd(p) <= q.offset \/ SpanEnd(q) <= p.offset

\* The offset lies inside a compound token that starts before it
ClaimedByCompound(toks, i) ==
    \E tok \in Range(toks) :
        /\ tok.type = "compound"
        /\ tok.position.offset < i
        /\ i < SpanEnd(tok.position)

\* A known compound string starts at offset i of the text
CompoundStartsAt(t, i) ==
    i + 1 < Len(t) /\ <<CharAt(t, i), CharAt(t, i + 1)>> \in COMPOUNDS

TokenizeReturned == pc \in {"tokenized", "parsed"}

\* C14: the tokens tokenize returns are in ascending order of offset and no
\* two of them overlap; no glyph, compound or micro-glyph token overlaps a
\* DotId match; and wherever a known compound string starts at an offset no
\* earlier compound has claimed, with both its characters outside the DotId
\* matches, the token at that offset is the compound, not its first glyph.
C14_TokensSortedDisjoint ==
    TokenizeReturned =>
        /\ SortedAscending(tokens)
        /\ NonOverlapping(tokens)
        /\ \A tok \in Range(tokens) : \A m \in Range(parseDotIds(text, FALSE)) :
               IsSymbolToken(tok) => Disjoint(tok.position, m.position)
        /\ \A i \in 0..(Len(text) - 2) :
               ( /\ CompoundStartsAt(text, i)
                 /\ ~isInsideDotIdRange(i, 2, dotIdRanges(parseDotIds(text, FALSE)))
                 /\ ~ClaimedByCompound(tokens, i) ) =>
               /\ \E tok \in Range(tokens) :
                     /\ tok.type = "compound"
                     /\ tok.position.offset = i
                     /\ tok.raw = <<CharAt(text, i), CharAt(text, i + 1)>>
               /\ \A tok \in Range(tokens) :
                     tok.position.offset = i => tok.type = "compound"

\* U+2301 U+29BF U+2301{U+2022}: the compound U+2301 U+29BF is emitted at
\* offset 0; the compound string U+29BF U+2301 at offset 1 is claimed, and its
\* second character belongs to the glyph attachment at offset 2
C14_Witness ==
    /\ pc = "tokenized"
    /\ text = <<EXECUTION, TEN, EXECUTION, LBRACE, UNIT, RBRACE>>
    /\ Len(tokens) = 2
    /\ tokens[1].type = "compound" /\ tokens[1].position.offset = 0
    /\ tokens[2].type = "dotid_declaration" /\ tokens[2].position.offset = 2

\* The line of the character at an offset
LineOf(t, i) == offsetToPosition(t, i, 1).line

\* The offsets of a line that hold a registered glyph symbol outside the
\* DotId matches
GlyphSymbolsOnLine(t, ms, line) ==
    { i \in 0..(Len(t) - 1) :
        /\ isGlyph(CharAt(t, i))
        /\ i \notin dotIdRanges(ms)
        /\ LineOf(t, i) = line }

GlyphLimitWarningsOf(line) ==
    { k \in 1..Len(errors) :
        errors[k].kind = "Glyph limit" /\ errors[k].position.line = line }

\* C15: parse reports exactly one glyph-limit warning for each line that
\* holds more than 3 registered glyph symbols outside the DotId matches, and
\* none for a line that holds 3 or fewer.
C15_GlyphLimitPerLine ==
    pc = "parsed" =>
        \A line \in 0..Len(text) :
            Cardinality(GlyphLimitWarningsOf(line)) =
                IF Cardinality(GlyphSymbolsOnLine(text, matches, line)) > 3
                THEN 1 ELSE 0

\* The line, the column and the offset of a position denote one location of
\* the text
LocatesInText(t, p) ==
    /\ p.offset \in 0..Len(t)
    /\ offsetToPosition(t, p.offset, p.length).line = p.line
    /\ offsetToPosition(t, p.offset, p.length).column = p.column

\* C16: every diagnostic in the result of parse (error, warning, glyph-limit
\* warning) carries a position whose line, column and offset denote one and
\* the same location of the text.
C16_DiagnosticsLocated ==
    pc = "parsed" => \A k \in 1..Len(errors) : LocatesInText(text, errors[k].position)

\* The references written before the declaration of their value
EarlyReferences ==
    { k \in 1..Len(references) :
        \E d \in Range(declarations) :
            /\ d.dotId.value = references[k].dotId.value
            /\ references[k].position.offset < d.position.offset }

\* The notices checkReferenceOrder returned for one reference
OrderNoticesOf(ref) ==
    { n \in 1..Len(errors) :
        /\ errors[n].position = ref.position
        /\ errors[n].value = ref.dotId.value }

ScanAdvancesEmptyStaysEmpty ==
    /\ (pc = "scanning" /\ pc' = "scanning") =>
          /\ scanIndex < Len(text)
          /\ scanIndex' > scanIndex
    /\ (pc' \in {"tokenized", "parsed"} /\ text' = <<>>) =>
          /\ tokens' = <<>>
          /\ declarations' = <<>>
          /\ references' = <<>>
          /\ errors' = <<>>

\* C18: for every text tokenize and parse terminate with a result: every
\* iteration of the scan loop of tokenize strictly increases the scan index,
\* which is below the text length whenever an iteration runs, tokenize and
\* then parse reach the state where the result is returned, and for the empty
\* text the tokens, declarations, references and diagnostics are all empty.
C18_ScanTerminates ==
    /\ [][ScanAdvancesEmptyStaysEmpty]_vars
    /\ <>(pc = "tokenized")
    /\ <>(pc = "parsed")

\* The scan of U+29BF U+2301 U+05D0 has returned: it went over a compound of
\* two characters and a Hebrew letter
C18_Witness ==
    /\ pc = "tokenized"
    /\ text = <<TEN, EXECUTION, ALEF>>
    /\ scanIndex = 3
    /\ Len(tokens) = 2

\* The values in use
UsedValues(c) == {c.usedIds[k] : k \in 1..Len(c.usedIds)}

\* C19: after any sequence of addDeclaration, removeId, reset and restore on
\* a counter over the values 1..10, getNextAvailable is the DotId of the
\* smallest value of 1..10 not in use; it is undefined exactly when all ten
\* values are in use, which is exactly when isAtCapacity holds.
C19_NextAvailableIsSmallestUnused ==
    /\ \A v \in (1..10) \ UsedValues(counter) :
          /\ getNextAvailable(counter) # UndefinedDotId
          /\ getNextAvailable(counter).value \in (1..10) \ UsedValues(counter)
          /\ getNextAvailable(counter).value <= v
    /\ (getNextAvailable(counter) = UndefinedDotId) <=> (1..10) \subseteq UsedValues(counter)
    /\ (getNextAvailable(counter) = UndefinedDotId) <=> isAtCapacity(counter)

\* A counter constructed with the declarations of the ten values: at
\* capacity, nothing available
C19_Witness ==
    /\ pc = "constructed"
    /\ getUsedCount(counter) = 10
    /\ isAtCapacity(counter)
    /\ getNextAvailable(counter) = UndefinedDotId

\* C20: after restore(s) the values in use, the used count, the next
\* available DotId and the declaration stored for each value are those of
\* the counter at the time s was taken, whatever was done in between; and s
\* itself is not changed by the operations that follow it.
C20_SnapshotRestoreRoundTrip ==
    /\ pc = "restored" =>
          /\ UsedValues(counter) = UsedValues(taken)
          /\ getUsedCount(counter) = getUsedCount(taken)
          /\ getNextAvailable(counter) = getNextAvailable(taken)
          /\ \A v \in 1..10 : getDeclaration(counter, v) = getDeclaration(taken, v)
    /\ snap # NoSnapshot => snap = snapshot(taken)

\* The snapshot holds value 1 with the first term; value 1 was then removed
\* and declared again with the other term; restore brought the first back
C20_Witness ==
    /\ pc = "restored"
    /\ ops = 4
    /\ getDeclaration(taken, 1) = CounterDecl(1, 0)
    /\ getDeclaration(counter, 1) = CounterDecl(1, 0)
    /\ ~isUsed(counter, 10)

\* The primitive at index k stands before a larger primitive
BeforeLarger(ps, k) ==
    \E j \in (k + 1)..Len(ps) : DOT_VALUES(ps[j]) > DOT_VALUES(ps[k])

RECURSIVE SumFrom(_, _)
\* The encoding rule applied to the primitives from index k on: a primitive
\* before a larger one is subtracted, any other is added
SumFrom(ps, k) ==
    IF k > Len(ps) THEN 0
    ELSE (IF BeforeLarger(ps, k) THEN 0 - DOT_VALUES(ps[k]) ELSE DOT_VALUES(ps[k]))
         + SumFrom(ps, k + 1)

\* C24: for each of the ten DotIds the signature is the concatenation of its
\* primitives, the primitives evaluated with the encoding rule (UNIT 1, FIVE
\* 5, TEN 10; subtracted before a larger primitive, added otherwise) give its
\* value, and exactly one DotId exists for each value 1..10.
C24_PrimitivesEncodeValue ==
    /\ Len(DOT_IDS) = 10
    /\ argValue \in 1..10 =>
          /\ Cardinality({k \in 1..Len(DOT_IDS) : DOT_IDS[k].value = argValue}) = 1
          /\ getDotIdByValue(argValue).signature = getDotIdByValue(argValue).primitives
          /\ Range(getDotIdByValue(argValue).primitives) \subseteq DOT_CHARS
          /\ SumFrom(getDotIdByValue(argValue).primitives, 1) = argValue

\* The DotId of 8 was looked up and written: two units before a ten
C24_Witness ==
    /\ pc = "builtReference"
    /\ argValue = 8
    /\ text = <<LBRACE, UNIT, UNIT, TEN, RBRACE>>
    /\ SumFrom(getDotIdByValue(8).primitives, 1) = 8

\* The positions of the entries of a list
PositionsOf(s) == {s[k].position : k \in 1..Len(s)}

\* C25: after parse of any text, every match of parseAnnotations is exactly
\* one of a declaration or a reference: the declarations and the references
\* together are as many as the matches, each match position is the position
\* of an entry of one of the two lists, and no position is in both.
C25_MatchesPartitioned ==
    pc = "parsed" =>
        /\ Len(declarations) + Len(references) = Len(matches)
        /\ PositionsOf(declarations) \cup PositionsOf(references) = PositionsOf(matches)
        /\ PositionsOf(declarations) \cap PositionsOf(references) = {}

\* a{U+2022}a{U+2022}{U+2022}: the first attachment is the declaration, the
\* second attachment and the standalone group are references
C25_Witness ==
    /\ pc = "parsed"
    /\ text = <<"a", LBRACE, UNIT, RBRACE, "a", LBRACE, UNIT, RBRACE, LBRACE, UNIT, RBRACE>>
    /\ Len(matches) = 3
    /\ Len(declarations) = 1
    /\ Len(references) = 2

\* The tokens that stand for DotId matches
IsDotIdToken(tok) == tok.type \in {"dotid_declaration", "dotid_reference"}

\* C26: in the result of parse a DotId token is typed dotid_declaration
\* exactly when its span is the span of an entry of declarations, and
\* dotid_reference exactly when its span is the span of an entry of
\* references.
C26_TokenTypesAgreeWithResolver ==
    pc = "parsed" =>
        \A tok \in Range(tokens) :
            IsDotIdToken(tok) =>
                /\ tok.type = "dotid_declaration" <=>
                       tok.position \in PositionsOf(declarations)
                /\ tok.type = "dotid_reference" <=>
                       tok.position \in PositionsOf(references)

\* In every state of the counter: a value is in use exactly when a
\* declaration is stored for it, and used and available add up to ten
UsedIffDeclared ==
    /\ \A v \in 1..10 : isUsed(counter, v) <=> getDeclaration(counter, v) # UndefinedDecl
    /\ getUsedCount(counter) + getAvailableCount(counter) = 10
    /\ getUsedCount(counter) = Cardinality(UsedValues(counter))

\* One operation: addDeclaration for a value in use changes neither the used
\* set nor any stored declaration; for a free value it stores the declaration
\* given and adds the value; removeId frees the value and forgets its
\* declaration
FirstDeclarationKept ==
    /\ pc' = "added" =>
          /\ \A v \in (1..10) \ {argValue'} :
                getDeclaration(counter', v) = getDeclaration(counter, v)
          /\ UsedValues(counter') = UsedValues(counter) \cup {argValue'}
          /\ IF isUsed(counter, argValue')
             THEN getDeclaration(counter', argValue') = getDeclaration(counter, argValue')
             ELSE getDeclaration(counter', argValue').term = argTerm'
    /\ pc' = "removed" =>
          /\ ~isUsed(counter', argValue')
          /\ getDeclaration(counter', argValue') = UndefinedDecl

\* C28: after any sequence of addDeclaration, removeId, reset and restore,
\* isUsed(v) holds exactly when getDeclaration(v) is defined, the used and
\* the available counts add up to 10, and getDeclaration(v) is the first
\* declaration added for v since v was last removed or the counter was reset:
\* adding another declaration for a value in use leaves the stored
\* declaration and the used set unchanged.
C28_FirstDeclarationWins ==
    /\ []UsedIffDeclared
    /\ [][FirstDeclarationKept]_vars

\* Value 1 is declared with the term a; addDeclaration was called with the
\* term b for value 1 and the stored declaration is still the one of a
C28_Witness ==
    /\ pc = "added"
    /\ argValue = 1
    /\ argTerm = InputTerm(1)
    /\ getDeclaration(counter, 1) = CounterDecl(1, 0)

-----------------------------------------------------------------------------
(* C29 *)

\* The ranges are given to the builder in non-decreasing order of their start
AddedInOrder(rs) ==
    \A j, k \in 1..Len(rs) : j < k => rs[j].from <= rs[k].from

\* No two of the ranges given to the builder overlap
AddedDisjoint(rs) ==
    \A j, k \in 1..Len(rs) :
        j < k => rs[j].to <= rs[k].from \/ rs[k].to <= rs[j].from

\* C29: buildDecorations gives its replace-decoration ranges to the range
\* builder in non-decreasing order of start offset, and no two of them overlap,
\* for every document, also one that mixes complete and incomplete matches.
C29_DecorationsAddedInOrder ==
    pc = "decorated" => AddedInOrder(added) /\ AddedDisjoint(added)

\* The ranges of an incomplete match written before a complete one
C29_OutOfOrder ==
    /\ pc = "decorated"
    /\ text = <<"a", LBRACE, UNIT, NL, "a", LBRACE, UNIT, RBRACE>>
    /\ added = << [from |-> 4, to |-> 8, incomplete |-> FALSE],
                  [from |-> 0, to |-> 3, incomplete |-> TRUE] >>

-----------------------------------------------------------------------------
(* C30 *)

\* At most one timer is pending; it is the one refreshTimeout names, it is due
\* REFRESH_DELAY after the last event, and the view is open
OnePendingTimer ==
    /\ Cardinality(view.timers) <= 1
    /\ \A tm \in view.timers :
          /\ tm.id = view.refreshTimeout
          /\ tm.due = lastEvent + REFRESH_DELAY
          /\ view.isOpen

\* A step that refreshes by a timer happens REFRESH_DELAY after the last
\* event and leaves no timer pending, so the events before it get no second
\* refresh
RefreshOncePerBurst ==
    (view'.refreshCount > view.refreshCount /\ pc' = "refreshed")
        => /\ clock = lastEvent + REFRESH_DELAY
           /\ view.timers # {}
           /\ view'.timers = {}

\* C30: NoteObjectsView has at most one refresh timer pending; an event clears
\* the pending timer before it arms the new one, so a burst of events is
\* followed by exactly one refresh, REFRESH_DELAY after its last event; onClose
\* clears the pending timer, and a pending timer does fire unless it is cleared.
C30_DebouncedRefresh ==
    /\ []OnePendingTimer
    /\ [][RefreshOncePerBurst]_vars
    /\ [](view.timers # {} => <>(view.timers = {}))

\* Two events 100 ms apart, one refresh by the timer 300 ms after the second
C30_Witness ==
    /\ pc = "refreshed"
    /\ view.timerCount = 2
    /\ view.refreshCount = 2
    /\ lastEvent = 100
    /\ clock = 400
    /\ view.timers = {}

-----------------------------------------------------------------------------
(* C23 *)

GetSuggestionsReturned == pc = "suggested"

\* No glyph symbol is suggested twice
GlyphsDistinct(gs) ==
    \A j, k \in 1..Len(gs) : gs[j].glyph = gs[k].glyph => j = k

\* The confidences do not increase along the list
ConfidenceDescending(ss) ==
    \A j, k \in 1..Len(ss) : j < k => ss[j].confidence >= ss[k].confidence

\* A suggestion made for the sentence start has the confidence 0.2, the
\* cursor is at a sentence start, and matchRules does not suggest its glyph
SentenceStartOnlyWhenNew(gs) ==
    \A k \in 1..Len(gs) :
        gs[k].confidence = SENTENCE_START_CONFIDENCE
            => /\ isAtSentenceStart(text, argCursor)
               /\ gs[k].glyph \in Range(sentenceStartGlyphs)
               /\ \A r \in Range(matchRules(argMatched)) : r.glyph # gs[k].glyph

\* C23: in the glyph suggestions of getSuggestions every glyph symbol occurs
\* at most once and the list is ordered by non-increasing confidence, whichever
\* rules match; a glyph gets the confidence 0.2 of the sentence start only when
\* the cursor is at a sentence start and no rule has suggested the glyph.
C23_GlyphsOnceByConfidence ==
    GetSuggestionsReturned =>
        /\ GlyphsDistinct(suggestionResult.glyphs)
        /\ ConfidenceDescending(suggestionResult.glyphs)
        /\ SentenceStartOnlyWhenNew(suggestionResult.glyphs)

\* Two rules that both name the feedback glyph match at a sentence start: the
\* glyph is suggested once, with the confidence of the first of the two rules
\* in the table, and the glyphs of the sentence start follow
C23_Witness ==
    /\ GetSuggestionsReturned
    /\ argMatched = {"causal_because", "feedback"}
    /\ suggestionResult.atSentenceStart
    /\ Len(suggestionResult.glyphs) = 9
    /\ suggestionResult.glyphs[1].glyph = "U+2192"
    /\ suggestionResult.glyphs[2] =
           [glyph |-> "U+21BB", confidence |-> 75, context |-> "after_causal"]
    /\ suggestionResult.glyphs[3].confidence = SENTENCE_START_CONFIDENCE

-----------------------------------------------------------------------------
(* C27 *)

TrackPronounsReturned == pc = "tracked"

\* The pronoun stands in the text at the position recorded for it
OccursAtPosition(p) ==
    /\ p.position + Len(p.text) <= Len(text)
    /\ toLowerCase(Slice(text, p.position, p.position + Len(p.text))) = p.text

\* The tracked nouns without a DotId that stand before the position, in its
\* paragraph and less than maxDistance before it
NounsBeforeInParagraph(position) ==
    {n \in Range(trackedNouns) :
        /\ ~n.hasDotId
        /\ n.position < position
        /\ position - n.position < maxDistance
        /\ n.position > lastIndexOfBlankLine(text, position)}

\* C27: the position trackPronouns records for a pronoun is the offset at
\* which the pronoun occurs in the text, and its candidates include every
\* tracked noun without a DotId that stands before it in its paragraph, within
\* the window of 300 characters, whatever the whitespace of the text is.
C27_PronounPositionsExact ==
    TrackPronounsReturned =>
        \A p \in Range(trackedPronouns) :
            /\ OccursAtPosition(p)
            /\ NounsBeforeInParagraph(p.position) \subseteq Range(p.candidates)

\* Two spaces between the name and the pronoun: the pronoun stands at offset
\* 5 and is recorded at offset 4
C27_PositionDrifts ==
    /\ TrackPronounsReturned
    /\ text = <<"S", "a", "m", SP, SP, "i", "t", SP>>
    /\ Len(trackedPronouns) = 1
    /\ trackedPronouns[1].text = <<"i", "t">>
    /\ trackedPronouns[1].position = 4
    /\ CharAt(text, 4) = SP

-----------------------------------------------------------------------------
(* C21 *)

\* The values of the declarations given to getSuggestions
ExistingValues == usedDotIdsOf(declarations)

\* Every suggested value is one of 1..10 that no existing declaration uses,
\* and no value is suggested for two different terms
SuggestedValuesFree(ss) ==
    /\ \A k \in 1..Len(ss) :
          /\ ss[k].dotId.value \in 1..10
          /\ ss[k].dotId.value \notin ExistingValues
    /\ \A j, k \in 1..Len(ss) :
          ss[j].dotId.value = ss[k].dotId.value
              => toLowerCase(ss[j].term) = toLowerCase(ss[k].term)

\* C21: every DotId suggestion of getSuggestions proposes a free value: one of
\* 1..10 that no existing declaration uses and that the same result proposes
\* for no other term.
C21_SuggestedValuesFree ==
    GetSuggestionsReturned => SuggestedValuesFree(suggestionResult.dotIds)

\* The pronoun heuristic proposes the value 1 for "Sam Sam" and the repetition
\* heuristic proposes the value 1 for "Tom"
C21_ValueProposedTwice ==
    /\ GetSuggestionsReturned
    /\ declarations = <<>>
    /\ Len(suggestionResult.dotIds) = 3
    /\ suggestionResult.dotIds[1].term = <<"S", "a", "m", SP, "S", "a", "m">>
    /\ suggestionResult.dotIds[1].dotId.value = 1
    /\ suggestionResult.dotIds[1].confidence = 70
    /\ suggestionResult.dotIds[3].term = <<"T", "o", "m">>
    /\ suggestionResult.dotIds[3].dotId.value = 1
    /\ suggestionResult.dotIds[3].confidence = 60

-----------------------------------------------------------------------------
(* C22 *)

\* The tracked nouns that occur three or more times and whose term no
\* existing declaration declares, as indexes into trackNouns(text)
RepeatedUndeclared ==
    LET ns == trackNouns(text)
    IN  {k \in 1..Len(ns) :
            /\ countOf(text, ns[k].text) >= 3
            /\ \A d \in Range(declarations) :
                   toLowerCase(d.term) # toLowerCase(ns[k].text)}

\* The result holds a suggestion for the k-th tracked noun
Suggested(k) ==
    \E s \in Range(suggestionResult.dotIds) :
        toLowerCase(s.term) = toLowerCase(trackNouns(text)[k].text)

\* The number of values of 1..10 that no existing declaration uses
FreeValues == 10 - Cardinality(ExistingValues \cap 1..10)

====
